---------------------------- MODULE Spec2Model ----------------------------
(***************************************************************************)
(* Model of the data acquisition pipeline of the Vini Data API:            *)
(*   app/services/cache_service.py            ResilientCache               *)
(*   app/services/scraper/adaptive_scraper.py AdaptiveScraper              *)
(*   app/services/data_service.py             ViniDataService              *)
(*                                                                         *)
(* Three specifications share the definitions below:                       *)
(*   SpecCache  one caller of a ResilientCache, each operation atomic      *)
(*   SpecConc   several callers of one ResilientCache, stepping through    *)
(*              the lock-protected sections of get and set                 *)
(*   Spec       get_data with the year loop of the scraper, one HTTP       *)
(*              request per step                                           *)
(***************************************************************************)
EXTENDS Integers, Sequences, FiniteSets, TLC

VARIABLES
    fresh,      \* ResilientCache.cache: TTLCache, entries in LRU order
    hist,       \* ResilientCache.historical_cache: LRUCache, LRU order
    now,        \* the timer the TTLCache reads
    lastOp,     \* SpecCache: the operation just performed and what it saw
    lastSet,    \* SpecCache: key -> value of the latest set for the key
    lock,       \* SpecConc: holder of ResilientCache.lock
    th,         \* SpecConc: each caller's position and locals
    tornSeen,   \* SpecConc: a caller ran a locked section during another's set
    scr,        \* SpecScrape: locals of scrape_with_pagination in progress
    inst,       \* SpecScrape: attributes of the AdaptiveScraper instance
    out,        \* the last call of the service or scraper and what it gave
    hashes,     \* SpecSchema: AdaptiveScraper.last_known_hash
    inp,        \* the arguments of the last call of the function studied
    res         \* what that call returned

cacheVars == <<fresh, hist, now>>
seqVars == <<lastOp, lastSet>>
concVars == <<lock, th, tornSeen>>
svcVars == <<scr, inst, out>>
fnVars == <<hashes, inp, res>>
vars == <<fresh, hist, now, lastOp, lastSet, lock, th, tornSeen,
          scr, inst, out, hashes, inp, res>>

-----------------------------------------------------------------------------
(* Bounds of the model *)

MaxSize == 1        \* max_size the modelled cache is constructed with
Ttl == 1            \* ttl the modelled cache is constructed with
MaxTime == 2        \* the timer runs from 0 to MaxTime

Keys == {"k1", "k2", "k3"}
None == [tag |-> "None"]
Values == {[tag |-> "val", id |-> "v1"], [tag |-> "val", id |-> "v2"]}

-----------------------------------------------------------------------------
(* cachetools.TTLCache and cachetools.LRUCache, as ResilientCache uses them. *)
(* A store is a sequence of entries, least recently used first.             *)

RECURSIVE IndexOf(_, _, _)
IndexOf(s, k, i) ==
    IF i > Len(s) THEN 0
    ELSE IF s[i].k = k THEN i
    ELSE IndexOf(s, k, i + 1)

HasKey(s, k) == IndexOf(s, k, 1) # 0

KeysOf(s) == {s[i].k : i \in 1..Len(s)}

Without(s, k) == SelectSeq(s, LAMBDA e : e.k # k)

ValueOf(s, k) == s[IndexOf(s, k, 1)].v

\* TTLCache.expire: drop every entry whose expiry time has been reached
TTLExpire(c, t) == SelectSeq(c, LAMBDA e : t < e.exp)

\* (mutant) a fresh store whose entries never expire
TTLContainsForever(c, k, t) == HasKey(c, k)

\* TTLCache.__contains__: present and not expired; the order is not touched
TTLContains(c, k, t) == HasKey(c, k) /\ t < c[IndexOf(c, k, 1)].exp

\* TTLCache.__getitem__ of a live key marks it most recently used
TTLTouch(c, k) == Append(Without(c, k), c[IndexOf(c, k, 1)])

\* TTLCache.__setitem__: expire, evict least recently used entries while a
\* new key does not fit, store with a new expiry as most recently used
RECURSIVE EvictTo(_, _)
EvictTo(s, room) == IF Len(s) > room THEN EvictTo(Tail(s), room) ELSE s

TTLSetItem(c, k, v, t, maxsize) ==
    LET live == TTLExpire(c, t)
        kept == IF HasKey(live, k) THEN Without(live, k)
                ELSE EvictTo(live, maxsize - 1)
    IN  Append(kept, [k |-> k, v |-> v, exp |-> t + Ttl])

\* TTLCache.__delitem__
TTLDelItem(c, k) == Without(c, k)

\* MutableMapping.clear: popitem until the cache is empty
TTLClear(c) == << >>

\* LRUCache.__contains__
LRUContains(h, k) == HasKey(h, k)

\* LRUCache.__getitem__ marks the key most recently used
LRUTouch(h, k) == Append(Without(h, k), h[IndexOf(h, k, 1)])

\* LRUCache.__setitem__
LRUSetItem(h, k, v, maxsize) ==
    LET kept == IF HasKey(h, k) THEN Without(h, k)
                ELSE EvictTo(h, maxsize - 1)
    IN  Append(kept, [k |-> k, v |-> v])

\* ResilientCache.__init__: the historical store holds twice max_size
HistMaxSize == MaxSize * 2

-----------------------------------------------------------------------------
(* ResilientCache, each operation on a state st = [fresh, hist] at time t.  *)

\* (mutant) set that writes the fresh store only
RCSetFreshOnly(st, k, v, t) ==
    [fresh |-> TTLSetItem(st.fresh, k, v, t, MaxSize),
     hist |-> st.hist]

\* set: both stores are written inside one locked section
RCSet(st, k, v, t) ==
    [fresh |-> TTLSetItem(st.fresh, k, v, t, MaxSize),
     hist |-> LRUSetItem(st.hist, k, v, HistMaxSize)]

\* (mutant) invalidate that deletes the key from both stores
RCInvalidateBoth(st, k, t) ==
    [fresh |-> Without(st.fresh, k), hist |-> Without(st.hist, k)]

\* invalidate: delete from the fresh store when the key is live there
RCInvalidate(st, k, t) ==
    IF TTLContains(st.fresh, k, t)
    THEN [st EXCEPT !.fresh = TTLDelItem(st.fresh, k)]
    ELSE st

\* (mutant) clear that empties both stores
RCClearBoth(st) == [fresh |-> << >>, hist |-> << >>]

\* clear: empty the fresh store
RCClear(st) == [st EXCEPT !.fresh = TTLClear(st.fresh)]

\* get, first section: the fresh store
RCGetFresh(st, k, t) ==
    IF TTLContains(st.fresh, k, t)
    THEN [hit |-> TRUE, ret |-> ValueOf(st.fresh, k),
          st |-> [st EXCEPT !.fresh = TTLTouch(st.fresh, k)]]
    ELSE [hit |-> FALSE, ret |-> None, st |-> st]

\* get, last section: the historical store
RCGetHist(st, k) ==
    IF LRUContains(st.hist, k)
    THEN [ret |-> ValueOf(st.hist, k),
          st |-> [st EXCEPT !.hist = LRUTouch(st.hist, k)]]
    ELSE [ret |-> None, st |-> st]

\* A fetch_func argument: absent, returning a value, or raising
NoFetch == [kind |-> "none"]
Raises == [kind |-> "raises"]
Returns(v) == [kind |-> "returns", v |-> v]
Fetches == {NoFetch, Raises} \cup {Returns(v) : v \in Values}

\* (mutant) get without the except clause around fetch_func: the exception
\* of a raising fetch_func reaches the caller
RCGetPropagates(st, k, f, t) ==
    LET a == RCGetFresh(st, k, t)
    IN  IF a.hit
        THEN [ret |-> a.ret, st |-> a.st, calls |-> 0, raised |-> FALSE]
        ELSE IF f.kind = "returns"
        THEN [ret |-> f.v, st |-> RCSet(a.st, k, f.v, t), calls |-> 1,
              raised |-> FALSE]
        ELSE IF f.kind = "raises"
        THEN [ret |-> None, st |-> a.st, calls |-> 1, raised |-> TRUE]
        ELSE LET h == RCGetHist(a.st, k)
             IN  [ret |-> h.ret, st |-> h.st, calls |-> 0, raised |-> FALSE]

\* get as a whole: result, state after, number of fetch_func calls, and
\* whether an exception reaches the caller. A hit in the fresh store returns
\* at once; otherwise fetch_func, when given, is called outside the lock and
\* its value stored by set; when it raises, or none was given, the
\* historical store answers.
RCGet(st, k, f, t) ==
    LET a == RCGetFresh(st, k, t)
    IN  IF a.hit
        THEN [ret |-> a.ret, st |-> a.st, calls |-> 0, raised |-> FALSE]
        ELSE IF f.kind = "returns"
        THEN [ret |-> f.v, st |-> RCSet(a.st, k, f.v, t), calls |-> 1,
              raised |-> FALSE]
        ELSE LET h == RCGetHist(a.st, k)
             IN  [ret |-> h.ret, st |-> h.st,
                  calls |-> IF f.kind = "raises" THEN 1 ELSE 0,
                  raised |-> FALSE]

-----------------------------------------------------------------------------
(* SpecCache: one caller, atomic operations *)

CacheState == [fresh |-> fresh, hist |-> hist]

Seen(op, k, f, ret, calls, raised) ==
    [op |-> op, k |-> k, f |-> f, ret |-> ret, calls |-> calls,
     raised |-> raised,
     freshHit |-> TTLContains(fresh, k, now),
     histHit |-> LRUContains(hist, k)]

\* An optional argument left out (None); no call made yet
Absent == ""
IdleScr == [status |-> "idle"]
NoOut == [status |-> "none"]

\* the pages whose hash AdaptiveScraper keeps
Urls == {"u1", "u2"}
NoHash == "nohash"

\* no function has been called, no page has been hashed
NoCall == [fn |-> "none"]
FnIdle ==
    /\ hashes = [u \in Urls |-> NoHash]
    /\ inp = NoCall
    /\ res = None

SvcIdle ==
    /\ scr = IdleScr
    /\ inst = [raw_html |-> << >>]
    /\ out = NoOut

ConcIdle ==
    /\ lock = "free"
    /\ th = << >>
    /\ tornSeen = FALSE

InitCache ==
    /\ fresh = << >>
    /\ hist = << >>
    /\ now = 0
    /\ lastOp = [op |-> "init"]
    /\ lastSet = [k \in Keys |-> None]
    /\ ConcIdle
    /\ SvcIdle
    /\ FnIdle

Set(k, v) ==
    LET st == RCSet(CacheState, k, v, now)
    IN  /\ fresh' = st.fresh
        /\ hist' = st.hist
        /\ lastOp' = Seen("set", k, NoFetch, None, 0, FALSE)
        /\ lastSet' = [lastSet EXCEPT ![k] = v]
        /\ UNCHANGED <<now, concVars, svcVars, fnVars>>

Get(k, f) ==
    LET r == RCGet(CacheState, k, f, now)
    IN  /\ fresh' = r.st.fresh
        /\ hist' = r.st.hist
        /\ lastOp' = Seen("get", k, f, r.ret, r.calls, r.raised)
        /\ lastSet' = IF r.calls = 1 /\ f.kind = "returns"
                      THEN [lastSet EXCEPT ![k] = f.v] ELSE lastSet
        /\ UNCHANGED <<now, concVars, svcVars, fnVars>>

Invalidate(k) ==
    LET st == RCInvalidate(CacheState, k, now)
    IN  /\ fresh' = st.fresh
        /\ hist' = st.hist
        /\ lastOp' = Seen("invalidate", k, NoFetch, None, 0, FALSE)
        /\ UNCHANGED <<now, lastSet, concVars, svcVars, fnVars>>

Clear ==
    LET st == RCClear(CacheState)
    IN  /\ fresh' = st.fresh
        /\ hist' = st.hist
        /\ lastOp' = Seen("clear", "k1", NoFetch, None, 0, FALSE)
        /\ UNCHANGED <<now, lastSet, concVars, svcVars, fnVars>>

Tick ==
    /\ now < MaxTime
    /\ now' = now + 1
    /\ lastOp' = Seen("tick", "k1", NoFetch, None, 0, FALSE)
    /\ UNCHANGED <<fresh, hist, lastSet, concVars, svcVars, fnVars>>

NextCache ==
    \/ \E k \in Keys, v \in Values : Set(k, v)
    \/ \E k \in Keys, f \in Fetches : Get(k, f)
    \/ \E k \in Keys : Invalidate(k)
    \/ Clear
    \/ Tick

SpecCache == InitCache /\ [][NextCache]_vars

-----------------------------------------------------------------------------
(* SpecConc: several callers of one ResilientCache.  A caller's locked      *)
(* section that neither blocks nor calls out is one step; set, whose one    *)
(* locked section writes the two stores one after the other, is three:      *)
(* acquire, write the fresh store, write the historical store and release.  *)
(* fetch_func runs between the sections of get, the lock not held.          *)

Threads == {"t1", "t2"}
ConcKeys == {"k1", "k2"}

IdleThread == [pc |-> "idle", k |-> "k1", f |-> NoFetch, v |-> None,
               ret |-> None, inGet |-> FALSE]

\* some other caller is between the two writes of its set
MidSet(t) == \E u \in Threads \ {t} : th[u].pc = "set_hist"

InitConc ==
    /\ fresh = << >>
    /\ hist = << >>
    /\ now = 0
    /\ lastOp = [op |-> "init"]
    /\ lastSet = [k \in Keys |-> None]
    /\ lock = "free"
    /\ th = [t \in Threads |-> IdleThread]
    /\ tornSeen = FALSE
    /\ SvcIdle
    /\ FnIdle

\* (mutant) get that keeps the lock while fetch_func runs
CGetFreshKeepsLock(t, k, f) ==
    /\ th[t].pc = "idle"
    /\ lock = "free"
    /\ LET a == RCGetFresh(CacheState, k, now)
       IN  /\ fresh' = a.st.fresh
           /\ th' = [th EXCEPT ![t] =
                 IF a.hit THEN [IdleThread EXCEPT !.ret = a.ret]
                 ELSE [pc |-> IF f.kind = "none" THEN "get_hist"
                              ELSE "get_fetch",
                       k |-> k, f |-> f, v |-> None, ret |-> None,
                       inGet |-> TRUE]]
           /\ lock' = IF ~a.hit /\ f.kind # "none" THEN t ELSE lock
    /\ tornSeen' = (tornSeen \/ MidSet(t))
    /\ UNCHANGED <<hist, now, seqVars, svcVars, fnVars>>

\* get, lines 50-54: the fresh store, under the lock
CGetFresh(t, k, f) ==
    /\ th[t].pc = "idle"
    /\ lock = "free"
    /\ LET a == RCGetFresh(CacheState, k, now)
       IN  /\ fresh' = a.st.fresh
           /\ th' = [th EXCEPT ![t] =
                 IF a.hit THEN [IdleThread EXCEPT !.ret = a.ret]
                 ELSE [pc |-> IF f.kind = "none" THEN "get_hist"
                              ELSE "get_fetch",
                       k |-> k, f |-> f, v |-> None, ret |-> None,
                       inGet |-> TRUE]]
    /\ tornSeen' = (tornSeen \/ MidSet(t))
    /\ UNCHANGED <<hist, now, lock, seqVars, svcVars, fnVars>>

\* get, lines 59-66: fetch_func is called with the lock not held; its value
\* goes to set, its exception to the historical store
CFetch(t) ==
    /\ th[t].pc = "get_fetch"
    /\ th' = [th EXCEPT ![t] =
          IF th[t].f.kind = "returns"
          THEN [@ EXCEPT !.pc = "set_lock", !.v = th[t].f.v, !.f = NoFetch]
          ELSE [@ EXCEPT !.pc = "get_hist", !.f = NoFetch]]
    /\ UNCHANGED <<cacheVars, lock, tornSeen, seqVars, svcVars, fnVars>>

\* get, lines 69-78: the historical store, under the lock
CGetHist(t) ==
    /\ th[t].pc = "get_hist"
    /\ lock = "free"
    /\ LET h == RCGetHist(CacheState, th[t].k)
       IN  /\ hist' = h.st.hist
           /\ th' = [th EXCEPT ![t] =
                 [IdleThread EXCEPT !.ret = h.ret]]
    /\ tornSeen' = (tornSeen \/ MidSet(t))
    /\ UNCHANGED <<fresh, now, lock, seqVars, svcVars, fnVars>>

\* a caller calls set(k, v)
CSetCall(t, k, v) ==
    /\ th[t].pc = "idle"
    /\ th' = [th EXCEPT ![t] =
          [pc |-> "set_lock", k |-> k, f |-> NoFetch, v |-> v,
           ret |-> None, inGet |-> FALSE]]
    /\ UNCHANGED <<cacheVars, lock, tornSeen, seqVars, svcVars, fnVars>>

\* (mutant) set that enters its section without taking the lock
CSetNoLock(t) ==
    /\ th[t].pc = "set_lock"
    /\ th' = [th EXCEPT ![t] = [@ EXCEPT !.pc = "set_fresh"]]
    /\ UNCHANGED <<cacheVars, lock, tornSeen, seqVars, svcVars, fnVars>>

\* set, line 89: with self.lock
CSetLock(t) ==
    /\ th[t].pc = "set_lock"
    /\ lock = "free"
    /\ lock' = t
    /\ th' = [th EXCEPT ![t] = [@ EXCEPT !.pc = "set_fresh"]]
    /\ UNCHANGED <<cacheVars, tornSeen, seqVars, svcVars, fnVars>>

\* set, line 91: self.cache[key] = value
CSetFresh(t) ==
    /\ th[t].pc = "set_fresh"
    /\ fresh' = TTLSetItem(fresh, th[t].k, th[t].v, now, MaxSize)
    /\ th' = [th EXCEPT ![t] = [@ EXCEPT !.pc = "set_hist"]]
    /\ tornSeen' = (tornSeen \/ MidSet(t))
    /\ UNCHANGED <<hist, now, lock, seqVars, svcVars, fnVars>>

\* (mutant) set that leaves the historical store as it finds it
CSetHistSkips(t) ==
    /\ th[t].pc = "set_hist"
    /\ lock' = "free"
    /\ th' = [th EXCEPT ![t] =
          [IdleThread EXCEPT
              !.ret = IF th[t].inGet THEN th[t].v ELSE None]]
    /\ UNCHANGED <<fresh, hist, now, tornSeen, seqVars, svcVars, fnVars>>

\* set, line 93: self.historical_cache[key] = value, and the lock released;
\* a set made by get returns the fetched value to get's caller
CSetHist(t) ==
    /\ th[t].pc = "set_hist"
    /\ hist' = LRUSetItem(hist, th[t].k, th[t].v, HistMaxSize)
    /\ lock' = "free"
    /\ th' = [th EXCEPT ![t] =
          [IdleThread EXCEPT
              !.ret = IF th[t].inGet THEN th[t].v ELSE None]]
    /\ UNCHANGED <<fresh, now, tornSeen, seqVars, svcVars, fnVars>>

\* invalidate, lines 105-109
CInvalidate(t, k) ==
    /\ th[t].pc = "idle"
    /\ lock = "free"
    /\ fresh' = RCInvalidate(CacheState, k, now).fresh
    /\ th' = [th EXCEPT ![t] = IdleThread]
    /\ tornSeen' = (tornSeen \/ MidSet(t))
    /\ UNCHANGED <<hist, now, lock, seqVars, svcVars, fnVars>>

\* clear, lines 115-118
CClear(t) ==
    /\ th[t].pc = "idle"
    /\ lock = "free"
    /\ fresh' = RCClear(CacheState).fresh
    /\ th' = [th EXCEPT ![t] = IdleThread]
    /\ tornSeen' = (tornSeen \/ MidSet(t))
    /\ UNCHANGED <<hist, now, lock, seqVars, svcVars, fnVars>>

CTick ==
    /\ now < MaxTime
    /\ now' = now + 1
    /\ UNCHANGED <<fresh, hist, lock, th, tornSeen, seqVars, svcVars, fnVars>>

NextConc ==
    \/ \E t \in Threads, k \in ConcKeys, f \in Fetches : CGetFresh(t, k, f)
    \/ \E t \in Threads : CFetch(t)
    \/ \E t \in Threads : CGetHist(t)
    \/ \E t \in Threads, k \in ConcKeys, v \in Values : CSetCall(t, k, v)
    \/ \E t \in Threads : CSetLock(t)
    \/ \E t \in Threads : CSetFresh(t)
    \/ \E t \in Threads : CSetHist(t)
    \/ \E t \in Threads, k \in ConcKeys : CInvalidate(t, k)
    \/ \E t \in Threads : CClear(t)
    \/ CTick

SpecConc == InitConc /\ [][NextConc]_vars

\* C7: set writes the fresh and the historical store inside one section of
\* the one lock, so no other caller runs a section of get, set, invalidate
\* or clear while a set has written the new value to one store and not yet
\* to the other.
C7_SetWritesBothStoresUnderLock ==
    /\ ~tornSeen
    /\ \A t \in Threads :
          th[t].pc \in {"set_fresh", "set_hist"} => lock = t

\* a set is between its two writes while the other caller waits to enter a
\* section on the same key
C7_Witness ==
    /\ th["t1"].pc = "set_hist"
    /\ th["t2"].pc \in {"get_hist", "set_lock"}
    /\ th["t2"].k = th["t1"].k
    /\ TTLContains(fresh, th["t1"].k, now)
    /\ ValueOf(fresh, th["t1"].k) = th["t1"].v
    /\ ~(LRUContains(hist, th["t1"].k)
         /\ ValueOf(hist, th["t1"].k) = th["t1"].v)
    /\ ~tornSeen

-----------------------------------------------------------------------------
(* AdaptiveScraper *)

max_retries == 3            \* AdaptiveScraper.__init__
LowDataThreshold == 10      \* scrape_with_pagination: len(all_data) < 10
FirstYear == 1970           \* the default start_year
MaxYears == 2               \* the modelled years are FirstYear and on
RowsPerPage == 2            \* data rows of a page that has a table of rows

ModelYears == FirstYear..(FirstYear + MaxYears - 1)

\* CATEGORY_MAPPING
CategoryMapping ==
    [producao |-> "opt_02", processamento |-> "opt_03",
     comercializacao |-> "opt_04", importacao |-> "opt_05",
     exportacao |-> "opt_06"]

\* SUBCATEGORY_MAPPING: the subcategory names of a category
SubcategoryMapping(category) ==
    CASE category = "producao" ->
           {"viniferas", "americanas_hibridas", "vinhos_mesa", "sucos"}
      [] category = "processamento" ->
           {"por_tipo", "por_regiao", "controle_qualidade"}
      [] category = "comercializacao" ->
           {"varejo", "grandes_redes", "exportacao_indireta"}
      [] category = "importacao" ->
           {"vinhos_finos", "espumantes", "uvas_frescas", "uvas_passas",
            "sucos"}
      [] category = "exportacao" ->
           {"vinhos_mesa", "espumantes", "uvas_frescas", "sucos"}
      [] OTHER -> {}

\* (mutant) get_category_params that looks at the category alone
CategoryParamsRaiseCategory(category, subcategory) ==
    category \notin DOMAIN CategoryMapping

\* get_category_params raises ValueError for a category or a subcategory
\* outside the mappings
CategoryParamsRaise(category, subcategory) ==
    \/ category \notin DOMAIN CategoryMapping
    \/ subcategory # Absent /\ subcategory \notin SubcategoryMapping(category)

\* What one session.get of a year's URL can end in: a RequestException
\* (connection, timeout, raise_for_status), or a page
\*   rows     a table with a header row and RowsPerPage data rows
\*   anoonly  a table whose only column is headed "ano"
\*   notable  no table at all
\*   norows   a table element without any tr
Pages == {"rows", "anoonly", "notable", "norows"}
Outcomes == {"fail"} \cup Pages

\* a page like rows whose table has LowDataThreshold data rows
FullPage == "full"
ScrapeOutcomes == Outcomes \cup {FullPage}
NoPage == "nopage"

\* extract_table_data: the row dictionaries of a page, each given by its
\* number of keys and whether "ano" is one of them.  For a table without tr
\* no header is found and table.find_all('tr')[0] raises IndexError.
ExtractTableData(page) ==
    CASE page = "rows" ->
           [raised |-> FALSE,
            rows |-> [i \in 1..RowsPerPage |->
                        [row |-> i, nkeys |-> 2, hasAno |-> FALSE]]]
      [] page = "anoonly" ->
           [raised |-> FALSE,
            rows |-> [i \in 1..RowsPerPage |->
                        [row |-> i, nkeys |-> 1, hasAno |-> TRUE]]]
      [] page = FullPage ->
           [raised |-> FALSE,
            rows |-> [i \in 1..LowDataThreshold |->
                        [row |-> i, nkeys |-> 2, hasAno |-> FALSE]]]
      [] page = "notable" -> [raised |-> FALSE, rows |-> << >>]
      [] OTHER -> [raised |-> TRUE, rows |-> << >>]

\* (mutant) a row that has an ano of its own keeps it
TagYearKeepsOwn(rows, year, src) ==
    [i \in 1..Len(rows) |->
        [ano |-> IF rows[i].hasAno THEN 0 ELSE year, row |-> rows[i].row,
         nkeys |-> IF rows[i].hasAno THEN rows[i].nkeys
                   ELSE rows[i].nkeys + 1,
         src |-> src]]

\* item['ano'] = year
TagYear(rows, year, src) ==
    [i \in 1..Len(rows) |->
        [ano |-> year, row |-> rows[i].row,
         nkeys |-> IF rows[i].hasAno THEN rows[i].nkeys
                   ELSE rows[i].nkeys + 1,
         src |-> src]]

\* scrape_with_pagination, before the loop
ScrapeBegin(start_year, end_year) ==
    [status |-> IF start_year > end_year THEN "done" ELSE "running",
     year |-> start_year, end_year |-> end_year, retries |-> 0,
     all_data |-> << >>, raw |-> << >>,
     last |-> [year |-> 0, attempt |-> 0, outcome |-> "none", wait |-> 0]]

\* the for loop moves to the next year, or ends
NextYear(s) ==
    [s EXCEPT !.year = s.year + 1, !.retries = 0,
              !.status = IF s.year + 1 > s.end_year THEN "done" ELSE @]

\* (mutant) a loop that tries a year once more than max_retries allows and
\* waits the same two seconds after every failure
ScrapeStepOneMore(s, o) ==
    LET req == [year |-> s.year, attempt |-> s.retries + 1, outcome |-> o,
                wait |-> IF o = "fail" THEN 2 ELSE 1]
    IN  IF o = "fail"
        THEN LET f == [s EXCEPT !.retries = s.retries + 1, !.last = req]
             IN  IF f.retries <= max_retries THEN f ELSE NextYear(f)
        ELSE LET ext == ExtractTableData(o)
                 got == [s EXCEPT !.raw = Append(s.raw,
                                      [year |-> s.year, page |-> o]),
                                  !.last = req]
             IN  IF ext.raised THEN [got EXCEPT !.status = "raised"]
                 ELSE NextYear([got EXCEPT !.all_data =
                          s.all_data \o TagYear(ext.rows, s.year, "online")])

\* One pass of the while loop of scrape_with_pagination for the year s.year,
\* the request ending in o.  A RequestException counts a retry and sleeps
\* retries * 2 seconds; the loop leaves the year after max_retries of them.
\* A page is kept in raw_html_collection and extracted; its rows are tagged
\* with the year and added, and the loop sleeps 1 second.  An exception of
\* extract_table_data is no RequestException and leaves the method.
ScrapeStep(s, o) ==
    LET req == [year |-> s.year, attempt |-> s.retries + 1, outcome |-> o,
                wait |-> IF o = "fail" THEN (s.retries + 1) * 2 ELSE 1]
    IN  IF o = "fail"
        THEN LET f == [s EXCEPT !.retries = s.retries + 1, !.last = req]
             IN  IF f.retries < max_retries THEN f ELSE NextYear(f)
        ELSE LET ext == ExtractTableData(o)
                 got == [s EXCEPT !.raw = Append(s.raw,
                                      [year |-> s.year, page |-> o]),
                                  !.last = req]
             IN  IF ext.raised THEN [got EXCEPT !.status = "raised"]
                 ELSE NextYear([got EXCEPT !.all_data =
                          s.all_data \o TagYear(ext.rows, s.year, "online")])

\* (mutant) the pages are kept whatever the number of records
RawHtmlAfterAlways(s, raw_html) ==
    IF s.status = "done" THEN s.raw ELSE raw_html

\* scrape_with_pagination, after the loop: self.raw_html is assigned only
\* when fewer than 10 records were collected
RawHtmlAfter(s, raw_html) ==
    IF s.status = "done" /\ Len(s.all_data) < LowDataThreshold
    THEN s.raw ELSE raw_html

YearsOf(raw) == {raw[i].year : i \in 1..Len(raw)}

\* scrape_category, after scrape_with_pagination returned: the envelope
ScrapedData(req, s, raw_html) ==
    [tag |-> "result",
     data |-> s.all_data,
     metadata |-> [category |-> req.category,
                   subcategory |-> req.subcategory,
                   start_year |-> req.start_year,
                   end_year |-> req.end_year,
                   record_count |-> Len(s.all_data),
                   years_with_data |->
                       {s.all_data[i].ano : i \in 1..Len(s.all_data)}],
     raw_html |-> IF Len(raw_html) > 0 THEN raw_html[1] ELSE
                  [year |-> 0, page |-> NoPage]]

-----------------------------------------------------------------------------
(* SpecScrape: one caller of AdaptiveScraper.scrape_category, the requests *)
(* of scrape_with_pagination one at a time                                 *)

ScrapeCategories == {"producao", "turismo"}

ScrapeSubcategories == {Absent, "viniferas", "americanas"}

ScrapeRequests ==
    [category : ScrapeCategories, subcategory : ScrapeSubcategories,
     start_year : ModelYears, end_year : ModelYears]

InitScrape ==
    /\ fresh = << >>
    /\ hist = << >>
    /\ now = 0
    /\ lastOp = [op |-> "init"]
    /\ lastSet = [k \in Keys |-> None]
    /\ ConcIdle
    /\ SvcIdle
    /\ FnIdle

\* scrape_category up to the loop of scrape_with_pagination: the ValueError
\* of get_category_params leaves before self.raw_html is reset
ScrapeCall(req) ==
    /\ scr.status = "idle"
    /\ IF CategoryParamsRaise(req.category, req.subcategory)
       THEN /\ out' = [status |-> "raised", req |-> req]
            /\ UNCHANGED <<scr, inst>>
       ELSE /\ out' = [status |-> "running", req |-> req]
            /\ scr' = ScrapeBegin(req.start_year, req.end_year)
            /\ inst' = [raw_html |->
                          RawHtmlAfter(ScrapeBegin(req.start_year,
                                                   req.end_year), << >>)]
    /\ UNCHANGED <<cacheVars, seqVars, concVars, fnVars>>

\* one session.get of the loop, and what the loop does with its outcome.
\* The loop also writes last_known_hash and error_count and reads neither;
\* last_known_hash is followed in SpecSchema.
ScrapeAttempt(o) ==
    /\ scr.status = "running"
    /\ scr' = ScrapeStep(scr, o)
    /\ inst' = [raw_html |-> RawHtmlAfter(ScrapeStep(scr, o), inst.raw_html)]
    /\ UNCHANGED <<out, cacheVars, seqVars, concVars, fnVars>>

\* scrape_category returns the envelope, or the exception leaves it
ScrapeReturn ==
    /\ scr.status \in {"done", "raised"}
    /\ out' = IF scr.status = "done"
              THEN [status |-> "returned", req |-> out.req,
                    envelope |-> ScrapedData(out.req, scr, inst.raw_html)]
              ELSE [status |-> "raised", req |-> out.req]
    /\ scr' = IdleScr
    /\ UNCHANGED <<inst, cacheVars, seqVars, concVars, fnVars>>

NextScrape ==
    \/ \E req \in ScrapeRequests : ScrapeCall(req)
    \/ \E o \in ScrapeOutcomes : ScrapeAttempt(o)
    \/ ScrapeReturn

SpecScrape == InitScrape /\ [][NextScrape]_vars

-----------------------------------------------------------------------------
(* ViniDataService *)

ValidationSample == 10      \* _validate_scraped_data: scraped_data.data[:10]

\* self.fallback_files: a category with one file
FallbackSingle ==
    [producao |-> "Producao.csv", comercializacao |-> "Comercio.csv"]

\* self.fallback_files: a category with a file per subcategory
FallbackDict ==
    [processamento |->
        [default |-> "ProcessaViniferas.csv",
         viniferas |-> "ProcessaViniferas.csv",
         americanas |-> "ProcessaAmericanas.csv",
         mesa |-> "ProcessaMesa.csv",
         semclassificacao |-> "ProcessaSemclass.csv"],
     importacao |->
        [default |-> "ImpVinhos.csv",
         vinhos |-> "ImpVinhos.csv",
         sucos |-> "ImpSuco.csv",
         espumantes |-> "ImpEspumantes.csv",
         passas |-> "ImpPassas.csv",
         frescas |-> "ImpFrescas.csv"],
     exportacao |->
        [default |-> "ExpVinho.csv",
         vinhos |-> "ExpVinho.csv",
         sucos |-> "ExpSuco.csv",
         espumantes |-> "ExpEspumantes.csv",
         uvas |-> "ExpUva.csv"]]

HasFallbackFile(category) ==
    category \in DOMAIN FallbackSingle \cup DOMAIN FallbackDict

\* FallbackFile that ignores the subcategory
FallbackFileDefaultOnly(category, subcategory) ==
    IF category \in DOMAIN FallbackDict
    THEN FallbackDict[category]["default"]
    ELSE IF category \in DOMAIN FallbackSingle
    THEN FallbackSingle[category]
    ELSE Absent

\* _load_fallback_data, lines 503-523: the file of (category, subcategory),
\* Absent when there is none
FallbackFile(category, subcategory) ==
    IF category \in DOMAIN FallbackDict
    THEN IF subcategory # Absent
            /\ subcategory \in DOMAIN FallbackDict[category]
         THEN FallbackDict[category][subcategory]
         ELSE FallbackDict[category]["default"]
    ELSE IF category \in DOMAIN FallbackSingle
    THEN FallbackSingle[category]
    ELSE Absent

\* A local snapshot file as the loader finds it:
\*   unreadable  missing, or no parsing attempt succeeds
\*   first       records of FirstYear only
\*   all         one record for every modelled year
SnapshotKinds == {"unreadable", "first", "all"}

SnapshotRecords(kind) ==
    IF kind = "first"
    THEN [i \in 1..RowsPerPage |->
             [ano |-> FirstYear, row |-> i, nkeys |-> 3, src |-> "file"]]
    ELSE [i \in 1..MaxYears |->
             [ano |-> FirstYear + i - 1, row |-> 1, nkeys |-> 3,
              src |-> "file"]]

\* _load_fallback_data; fs gives the state of every file that may be read
LoadFallbackData(category, subcategory, fs) ==
    LET file == FallbackFile(category, subcategory)
    IN  IF file = Absent THEN None
        ELSE IF fs[file] = "unreadable" THEN None
        ELSE LET data == SnapshotRecords(fs[file])
             IN  [tag |-> "result",
                  data |-> data,
                  metadata |-> [category |-> category,
                                subcategory |-> subcategory,
                                source |-> "fallback_file",
                                file |-> file,
                                record_count |-> Len(data)],
                  fallback_used |-> TRUE]

\* (mutant) validation that accepts every payload
ValidateScrapedDataAlways(data) == TRUE

\* _validate_scraped_data: data is the list scrape_with_pagination built, so
\* a list of dictionaries; an empty list is valid; otherwise one of the
\* first 10 records must have more than one key
ValidateScrapedData(data) ==
    \/ Len(data) = 0
    \/ \E i \in 1..Len(data) : i <= ValidationSample /\ data[i].nkeys > 1

\* _parse_raw_html of the page kept in the envelope.  The source_url of the
\* envelope carries no ano parameter, so no year is added; the records of an
\* anoonly page hold the text of their ano cell, taken to be the page's year.
ParseRawHtml(raw) ==
    CASE raw.page = "rows" ->
           [i \in 1..RowsPerPage |->
               [ano |-> raw.year, row |-> i, nkeys |-> 2, src |-> "recovered"]]
      [] raw.page = "anoonly" ->
           [i \in 1..RowsPerPage |->
               [ano |-> raw.year, row |-> i, nkeys |-> 1, src |-> "recovered"]]
      [] OTHER -> << >>

\* _attempt_data_recovery: None when no page was kept (parsing None raises,
\* which is caught) or when the page yields no record
AttemptDataRecovery(envelope) ==
    IF envelope.raw_html.page = NoPage THEN None
    ELSE LET recovered == ParseRawHtml(envelope.raw_html)
         IN  IF Len(recovered) > 0
             THEN [tag |-> "result", data |-> recovered,
                   metadata |-> envelope.metadata]
             ELSE None

\* ScrapedData.dict(): raw_html is excluded
Dict(envelope) ==
    [tag |-> "result", data |-> envelope.data, metadata |-> envelope.metadata]

\* fetch_data, the closure of get_data, once scrape_category has returned
\* the envelope or has raised: every exception gives None
FetchData(req, s, raw_html) ==
    IF s.status # "done" THEN None
    ELSE LET envelope == ScrapedData(req, s, raw_html)
         IN  IF ~ValidateScrapedData(envelope.data)
             THEN LET recovered == AttemptDataRecovery(envelope)
                  IN  IF recovered # None THEN Dict(recovered) ELSE None
             ELSE Dict(envelope)

\* _filter_data with the year range alone: every modelled record has an
\* integer year
FilterData(data, start_year, end_year) ==
    SelectSeq(data, LAMBDA r : start_year <= r.ano /\ r.ano <= end_year)

\* AdaptiveScraper defines CATEGORY_MAPPING and SUBCATEGORY_MAPPING and no
\* CULTIVAR_TYPE_MAPPING
HasCultivarTypeMapping == FALSE

\* detect_subcategory_from_data for the modelled categories: fewer than two
\* records give None; "processamento" reads
\* self.scraper.CULTIVAR_TYPE_MAPPING, an AttributeError; "importacao"
\* passes the exportacao test and falls to the final return None
DetectSubcategory(category, data) ==
    IF Len(data) < 2 THEN [raised |-> FALSE, subcategory |-> Absent]
    ELSE IF category = "processamento"
    THEN [raised |-> ~HasCultivarTypeMapping, subcategory |-> Absent]
    ELSE [raised |-> FALSE, subcategory |-> Absent]

\* _sanitize_for_json by way of _clean_data_for_export: a record with at
\* most one key, or at most one non-empty value, is dropped
SanitizeForJson(data) == SelectSeq(data, LAMBDA r : r.nkeys > 1)

\* if not result (lines 142, 147, 152)
Nothing(result) == result = None

\* (mutant) the fallback file is loaded whatever the earlier tiers gave
NothingAlways(result) == TRUE

\* line 142: the fallback tier is entered when cache and fetch gave nothing
NeedsFallback(result) == Nothing(result)

\* get_data from line 139 on: cached is what data_cache.get(cache_key)
\* returned, fetched what fetch_data would return, fs the snapshot files.
\* consulted lists the tiers in the order get_data asked them, each with
\* whether it yielded a result.
GetDataResult(req, cached, fetched, fs) ==
    LET useCache == ~Nothing(cached)
        r1 == IF useCache THEN cached ELSE fetched
        t1 == <<[tier |-> "cache", yielded |-> useCache]>>
              \o (IF useCache THEN << >>
                  ELSE <<[tier |-> "live", yielded |-> ~Nothing(fetched)]>>)
        fb1 == LoadFallbackData(req.category, req.subcategory, fs)
        r2 == IF NeedsFallback(r1) THEN fb1 ELSE r1
        t2 == IF NeedsFallback(r1)
              THEN t1 \o <<[tier |-> "fallback_subcategory",
                            yielded |-> ~Nothing(fb1)]>>
              ELSE t1
        again == NeedsFallback(r1) /\ Nothing(r2) /\ req.subcategory # Absent
        fb2 == LoadFallbackData(req.category, Absent, fs)
        r3 == IF again THEN fb2 ELSE r2
        t3 == IF again
              THEN t2 \o <<[tier |-> "fallback_default",
                            yielded |-> ~Nothing(fb2)]>>
              ELSE t2
    IN  IF Nothing(r3)
        THEN [status |-> "returned", error |-> "Data retrieval failed",
              data |-> << >>, fallback_used |-> TRUE, consulted |-> t3,
              data_source |-> "none", from_cache |-> FALSE]
        ELSE LET fallback_used == "fallback_used" \in DOMAIN r3
                                      /\ r3.fallback_used
                 data_source == IF useCache THEN "cache"
                                ELSE IF ~fallback_used THEN "online"
                                ELSE "fallback_file"
                 filtered == FilterData(r3.data, req.start_year, req.end_year)
                 detect == IF req.subcategory = Absent
                              /\ r3.metadata.subcategory = Absent
                           THEN DetectSubcategory(req.category, filtered)
                           ELSE [raised |-> FALSE, subcategory |-> Absent]
                 sanitized == SanitizeForJson(filtered)
             IN  IF detect.raised
                 THEN [status |-> "raised", consulted |-> t3]
                 ELSE [status |-> "returned", error |-> Absent,
                       data |-> sanitized, fallback_used |-> fallback_used,
                       consulted |-> t3, data_source |-> data_source,
                       from_cache |-> cached # None,
                       total_records |-> Len(sanitized)]

-----------------------------------------------------------------------------
(* Spec: callers of ViniDataService.get_data, one call at a time, with the *)
(* module's data_cache                                                     *)

Categories == {"producao", "processamento", "turismo"}
Subcategories == {Absent, "americanas"}

Requests ==
    {r \in [category : Categories, subcategory : Subcategories,
            start_year : ModelYears, end_year : ModelYears] :
        r.start_year <= r.end_year}

\* lines 85-88: the cache key of a request without further filters
CacheKey(req) ==
    req.category
        \o (IF req.subcategory # Absent THEN "_" \o req.subcategory ELSE "")
        \o "_" \o ToString(req.start_year) \o "_" \o ToString(req.end_year)

\* What the network does during one scrape: for every year of the range
\* either all its requests fail, or its first request gives a page
NetworkPlans(req) == [req.start_year..req.end_year -> Outcomes]
NoScrape == << >>

\* scrape_with_pagination run to its end under a plan
RECURSIVE RunScrape(_, _)
RunScrape(s, plan) ==
    IF s.status # "running" THEN s
    ELSE RunScrape(ScrapeStep(s, plan[s.year]), plan)

\* scrape_category as fetch_data calls it, and fetch_data's handling of it
Fetched(req, plan) ==
    IF CategoryParamsRaise(req.category, req.subcategory) THEN None
    ELSE LET s == RunScrape(ScrapeBegin(req.start_year, req.end_year), plan)
         IN  FetchData(req, s, RawHtmlAfter(s, << >>))

\* the files _load_fallback_data may open for a request
FilesOf(req) ==
    {FallbackFile(req.category, req.subcategory),
     FallbackFile(req.category, Absent)} \ {Absent}

\* get_data(category, start_year, end_year, subcategory=subcategory); one
\* request is handled at a time, its result kept in out until the endpoint
\* has answered.  self.raw_html of the scraper is reset by scrape_category
\* before the same call reads it, so it carries nothing from one call to
\* the next and inst is left as it is.
GetData(req, plan, fs) ==
    /\ out = NoOut
    /\ \E g \in {RCGet(CacheState, CacheKey(req), NoFetch, now)} :
        /\ plan \in IF Nothing(g.ret)
                       /\ ~CategoryParamsRaise(req.category, req.subcategory)
                    THEN NetworkPlans(req) ELSE {NoScrape}
        /\ fs \in [FilesOf(req) -> SnapshotKinds]
        /\ \E fetched \in {IF Nothing(g.ret) THEN Fetched(req, plan)
                           ELSE None} :
              \E result \in {GetDataResult(req, g.ret, fetched, fs)} :
                 out' = [result |-> result, req |-> req, cached |-> g.ret,
                         network |-> plan, files |-> fs,
                         status |-> result.status]
        /\ fresh' = g.st.fresh
        /\ hist' = g.st.hist
    /\ UNCHANGED <<now, scr, inst, seqVars, concVars, fnVars>>

\* the endpoint answers its client: the result, or 503 when get_data raised
Respond ==
    /\ out # NoOut
    /\ out' = NoOut
    /\ UNCHANGED <<cacheVars, scr, inst, seqVars, concVars, fnVars>>

\* What a caller of data_cache.set keeps for a request: the dictionary of a
\* scrape whose pages all had rows
Scraped(req) ==
    Fetched(req, [y \in req.start_year..req.end_year |-> "rows"])

StoredRequests ==
    {r \in Requests : /\ r.category = "producao"
                      /\ r.subcategory = Absent
                      /\ r.end_year = FirstYear}

\* data_cache.set(key, value) by a user of the module's cache
CacheSet(req) ==
    LET st == RCSet(CacheState, CacheKey(req), Scraped(req), now)
    IN  /\ out = NoOut
        /\ fresh' = st.fresh
        /\ hist' = st.hist
        /\ UNCHANGED <<now, svcVars, seqVars, concVars, fnVars>>

\* data_cache.invalidate(key)
CacheInvalidate(req) ==
    LET st == RCInvalidate(CacheState, CacheKey(req), now)
    IN  /\ out = NoOut
        /\ fresh' = st.fresh
        /\ hist' = st.hist
        /\ UNCHANGED <<now, svcVars, seqVars, concVars, fnVars>>

\* the timer of the TTLCache moves on
Elapse ==
    /\ out = NoOut
    /\ now < MaxTime
    /\ now' = now + 1
    /\ UNCHANGED <<fresh, hist, svcVars, seqVars, concVars, fnVars>>

Init ==
    /\ fresh = << >>
    /\ hist = << >>
    /\ now = 0
    /\ lastOp = [op |-> "init"]
    /\ lastSet = [k \in Keys |-> None]
    /\ ConcIdle
    /\ SvcIdle
    /\ FnIdle

Next ==
    \/ \E req \in Requests :
          \E plan \in NetworkPlans(req) \cup {NoScrape} :
             \E fs \in [FilesOf(req) -> SnapshotKinds] :
                GetData(req, plan, fs)
    \/ Respond
    \/ \E req \in StoredRequests : CacheSet(req)
    \/ \E req \in StoredRequests : CacheInvalidate(req)
    \/ Elapse

Spec == Init /\ [][Next]_vars

-----------------------------------------------------------------------------
(* Claims about ResilientCache, one caller (SpecCache) *)

\* C5: a get whose fetch_func raises, for a key that is no longer live in
\* the fresh store but still in the historical store, returns the value of
\* the latest set for the key and does not raise; it returns null only when
\* the key is in neither store.
C5_StaleValueWhenFetchRaises ==
    (lastOp.op = "get" /\ lastOp.f = Raises /\ ~lastOp.freshHit) =>
        /\ ~lastOp.raised
        /\ lastOp.histHit =>
              (lastOp.ret = lastSet[lastOp.k] /\ lastOp.ret \in Values)
        /\ lastOp.ret = None => ~lastOp.histHit

C5_Witness ==
    /\ lastOp.op = "get"
    /\ lastOp.f = Raises
    /\ ~lastOp.freshHit
    /\ lastOp.histHit
    /\ lastOp.calls = 1
    /\ lastOp.ret = lastSet[lastOp.k]
    /\ lastOp.ret \in Values

\* C6: get looks in the fresh store first; on a miss there with a fetch_func
\* that returns v, fetch_func is called exactly once, v is stored under the
\* key in the fresh and in the historical store, and v is returned.
C6_FetchStoresInBothTiers ==
    (lastOp.op = "get" /\ lastOp.f.kind = "returns") =>
        IF lastOp.freshHit
        THEN lastOp.calls = 0 /\ lastOp.ret = lastSet[lastOp.k]
        ELSE /\ lastOp.calls = 1
             /\ lastOp.ret = lastOp.f.v
             /\ TTLContains(fresh, lastOp.k, now)
             /\ ValueOf(fresh, lastOp.k) = lastOp.f.v
             /\ LRUContains(hist, lastOp.k)
             /\ ValueOf(hist, lastOp.k) = lastOp.f.v

C6_Witness ==
    /\ lastOp.op = "get"
    /\ lastOp.f.kind = "returns"
    /\ ~lastOp.freshHit
    /\ lastOp.histHit
    /\ lastOp.calls = 1
    /\ lastOp.ret = lastOp.f.v
    /\ ValueOf(hist, lastOp.k) = lastOp.f.v

\* C8: an entry leaves the historical store only as the least recently used
\* one, when a set of a new key finds the store holding 2 x max_size
\* entries; the passing of time, invalidate and clear remove nothing from it.
C8_HistoricalOnlyLruEvicted ==
    [][\A k \in KeysOf(hist) \ KeysOf(hist') :
          /\ \/ lastOp'.op = "set"
             \/ lastOp'.op = "get" /\ lastOp'.f.kind = "returns"
                                   /\ lastOp'.calls = 1
          /\ lastOp'.k \notin KeysOf(hist)
          /\ Len(hist) = 2 * MaxSize
          /\ k = hist[1].k]_vars

C8_Witness ==
    /\ lastOp.op = "set"
    /\ ~lastOp.histHit
    /\ Len(hist) = 2 * MaxSize
    /\ \E k \in Keys : lastSet[k] # None /\ k \notin KeysOf(hist)


-----------------------------------------------------------------------------
(* Claims about AdaptiveScraper (SpecScrape) *)

\* C9: in a scrape over several years a failure to obtain one year's data,
\* whether its fetch failed after the retries or the extraction of its
\* page failed, never aborts the range: when scrape_with_pagination ends,
\* then for every year whose page was fetched and has rows it ends by
\* returning, and what it returns holds the records of that year.
C9_YearFailureNeverAbortsRange ==
    scr.status \in {"done", "raised"} =>
        \A i \in 1..Len(scr.raw) :
            scr.raw[i].page = "rows" =>
                /\ scr.status = "done"
                /\ \E j \in 1..Len(scr.all_data) :
                      scr.all_data[j].ano = scr.raw[i].year

\* C10: every request of scrape_with_pagination is for the year the loop is
\* at, and years never go back; it is the year's first request or follows a
\* failed one, and is at most the max_retries-th of its year; no request is
\* made for a year whose page was already fetched; after the k-th failure
\* of a year the loop sleeps 2k seconds; after the max_retries-th failure
\* the loop leaves the year for the next one (or ends), after an earlier
\* failure it stays on the year.
C10_RetriesBackoffAndSkip ==
    [][scr.status = "running" =>
        LET r == scr'.last
            p == scr.last
        IN  /\ r.year = scr.year
            /\ p.outcome # "none" => r.year >= p.year
            /\ r.attempt = IF p.outcome = "fail" /\ p.year = r.year
                           THEN p.attempt + 1 ELSE 1
            /\ p.outcome \notin {"none", "fail"} => r.year > p.year
            /\ r.attempt <= max_retries
            /\ r.year \notin YearsOf(scr.raw)
            /\ r.outcome = "fail" => r.wait = 2 * r.attempt
            /\ r.outcome = "fail" /\ r.attempt = max_retries =>
                  /\ scr'.year = r.year + 1
                  /\ scr'.status =
                        IF r.year = scr.end_year THEN "done" ELSE "running"
            /\ r.outcome = "fail" /\ r.attempt < max_retries =>
                  scr'.year = r.year /\ scr'.status = "running"
            /\ r.outcome # "fail" => r.year \in YearsOf(scr'.raw)]_vars

\* a year was given up after max_retries failed requests and the loop went
\* on to the next year, which it then fetched
C10_Witness ==
    /\ scr.status = "done"
    /\ scr.last.year = scr.end_year
    /\ scr.last.outcome = "rows"
    /\ scr.last.attempt = 2
    /\ scr.end_year > FirstYear
    /\ YearsOf(scr.raw) = {scr.end_year}

-----------------------------------------------------------------------------
(* Claims about ViniDataService.get_data (Spec) *)

\* the snapshot file of the request as the call found it holds a record of
\* the requested years
SnapshotInRange ==
    LET file == FallbackFile(out.req.category, out.req.subcategory)
    IN  /\ file # Absent
        /\ out.files[file] # "unreadable"
        /\ \E i \in 1..Len(SnapshotRecords(out.files[file])) :
              LET r == SnapshotRecords(out.files[file])[i]
              IN  out.req.start_year <= r.ano /\ r.ano <= out.req.end_year

\* C1: for a category with a registered fallback file, when the cache holds
\* nothing for the request, every HTTP request of the scrape fails and the
\* snapshot has records of the requested years, get_data returns
\* data_source "fallback_file" and a non-empty list of records that all
\* come from the snapshot.
C1_UnreachableSourceServedFromSnapshot ==
    ( /\ out # NoOut
      /\ HasFallbackFile(out.req.category)
      /\ Nothing(out.cached)
      /\ out.network # NoScrape
      /\ \A y \in DOMAIN out.network : out.network[y] = "fail"
      /\ SnapshotInRange )
    => /\ out.status = "returned"
       /\ out.result.data_source = "fallback_file"
       /\ Len(out.result.data) > 0
       /\ \A i \in 1..Len(out.result.data) : out.result.data[i].src = "file"

\* C2: get_data never raises: whatever the category, the cache lookup, the
\* scrape, validation, recovery, the fallback files, detection, filtering
\* and sanitization do, the call ends by returning a result.
C2_GetDataNeverRaises == out.status # "raised"

\* the four tiers in the order of get_data
TierOrder == <<"cache", "live", "fallback_subcategory", "fallback_default">>

\* C3: the tiers a get_data call consults are an initial part of cache,
\* live scrape, fallback file of the subcategory, default fallback file, in
\* this order; every consulted tier but the last one yielded nothing; and
\* the "Data retrieval failed" result with empty data is returned only when
\* every tier was consulted and yielded nothing (with no subcategory in the
\* request the fallback file of the subcategory is the default file, and it
\* is read once).
C3_TiersInOrderUntilOneYields ==
    out # NoOut =>
        LET t == out.result.consulted
        IN  /\ Len(t) >= 1 /\ Len(t) <= Len(TierOrder)
            /\ \A i \in 1..Len(t) : t[i].tier = TierOrder[i]
            /\ \A i \in 1..(Len(t) - 1) : ~t[i].yielded
            /\ t[1].yielded = ~Nothing(out.cached)
            /\ ( out.status = "returned"
                 /\ out.result.error = "Data retrieval failed" ) =>
                   /\ out.result.data = << >>
                   /\ \A i \in 1..Len(t) : ~t[i].yielded
                   /\ Len(t) = IF out.req.subcategory = Absent THEN 3 ELSE 4
            /\ ( out.status = "returned"
                 /\ out.result.error = Absent ) => t[Len(t)].yielded

\* cache, scrape and the file of the subcategory gave nothing, and the
\* default file, the last tier, gave the data
C3_Witness ==
    /\ out # NoOut
    /\ out.status = "returned"
    /\ out.result.error = Absent
    /\ Len(out.result.consulted) = 4
    /\ out.result.consulted[4].yielded
    /\ out.result.data_source = "fallback_file"

\* C4: after a get_data call has returned data of a live scrape, the same
\* call made again at once, so within the TTL, is served from the cache:
\* its lookup of the cache yields a value, so that no scrape is made, and
\* it returns from_cache true and data_source "cache".
C4_RepeatedCallServedFromCache ==
    ( out.status = "returned" /\ out.result.data_source = "online" ) =>
        LET again == RCGet(CacheState, CacheKey(out.req), NoFetch, now)
            result == GetDataResult(out.req, again.ret, None, out.files)
        IN  /\ ~Nothing(again.ret)
            /\ result.from_cache
            /\ result.data_source = "cache"

-----------------------------------------------------------------------------
(* Claims about the envelope of scrape_category (SpecScrape) *)

\* the envelope scrape_category is about to return
Envelope == ScrapedData(out.req, scr, inst.raw_html)

\* C11: the envelope carries raw_html exactly when fewer than 10 records
\* were collected and at least one year's page was fetched, and the page it
\* carries is then the page of the first year fetched.
C11_RawHtmlIsFirstFetchedPage ==
    scr.status = "done" =>
        /\ Envelope.raw_html.page # NoPage
              <=> (Len(Envelope.data) < LowDataThreshold /\ Len(scr.raw) > 0)
        /\ Envelope.raw_html.page # NoPage => Envelope.raw_html = scr.raw[1]

\* C11 as stated: the page carried is the page of the last year fetched
C11_RawHtmlIsLastFetchedPage ==
    scr.status = "done" =>
        /\ Envelope.raw_html.page # NoPage
              <=> (Len(Envelope.data) < LowDataThreshold /\ Len(scr.raw) > 0)
        /\ Envelope.raw_html.page # NoPage =>
              Envelope.raw_html = scr.raw[Len(scr.raw)]

\* two years were fetched, with different pages and few records, and the
\* envelope carries a page
C11_Witness ==
    /\ scr.status = "done"
    /\ Len(scr.raw) = 2
    /\ scr.raw[1].page # scr.raw[2].page
    /\ Envelope.raw_html.page # NoPage

\* C12: scrape_category called with a category outside the taxonomy, or
\* with a subcategory not registered for the category, ends with an error,
\* and the request loop is never entered for it: no HTTP request is made,
\* at the first try or again.
C12_UnknownTaxonomyFailsBeforeRequests ==
    ( /\ out # NoOut
      /\ \/ out.req.category \notin DOMAIN CategoryMapping
         \/ /\ out.req.subcategory # Absent
            /\ out.req.subcategory \notin
                   SubcategoryMapping(out.req.category) )
    => /\ out.status = "raised"
       /\ scr = IdleScr

\* a call with a category of the taxonomy and a subcategory that is not
\* registered for it has failed
C12_Witness ==
    /\ out # NoOut
    /\ out.status = "raised"
    /\ out.req.category \in DOMAIN CategoryMapping
    /\ out.req.subcategory # Absent
    /\ out.req.subcategory \notin SubcategoryMapping(out.req.category)
    /\ scr = IdleScr

-----------------------------------------------------------------------------
(* SpecSchema: callers of AdaptiveScraper.detect_schema_changes *)

\* A page: the text of its div of class main-content, Absent when it has
\* none, and the rest of the document
Mains == {Absent, "tableA", "tableB"}
Chromes == {"x", "y"}
Contents == [main : Mains, chrome : Chromes]

\* lines 111-113: the main-content div when there is one, else the document
ContentToHash(content) ==
    IF content.main # Absent
    THEN "<div class=main-content>" \o content.main \o "</div>"
    ELSE "<html>" \o content.chrome \o "</html>"

\* hashlib.md5(...).hexdigest(), taken to be free of collisions
Md5(text) == "md5:" \o text

CurrentHash(content) == Md5(ContentToHash(content))

\* (mutant) the baseline is written at the first call for a URL only
DetectKeepsBaseline(h, url, content) ==
    IF h[url] = NoHash
    THEN [ret |-> FALSE, hashes |-> [h EXCEPT ![url] = CurrentHash(content)]]
    ELSE [ret |-> CurrentHash(content) # h[url], hashes |-> h]

\* detect_schema_changes(url, html_content) with last_known_hash h
DetectSchemaChanges(h, url, content) ==
    IF h[url] = NoHash
    THEN [ret |-> FALSE, hashes |-> [h EXCEPT ![url] = CurrentHash(content)]]
    ELSE IF CurrentHash(content) # h[url]
    THEN [ret |-> TRUE, hashes |-> [h EXCEPT ![url] = CurrentHash(content)]]
    ELSE [ret |-> FALSE, hashes |-> h]

\* what the callers have passed so far: per URL the hash of the content of
\* the latest call for it
SeenSoFar ==
    IF inp.fn = "detect_schema_changes" THEN inp.seen
    ELSE [u \in Urls |-> NoHash]

Detect(url, content) ==
    LET r == DetectSchemaChanges(hashes, url, content)
    IN  /\ hashes' = r.hashes
        /\ res' = r.ret
        /\ inp' = [fn |-> "detect_schema_changes", url |-> url,
                   content |-> content, before |-> SeenSoFar[url],
                   seen |-> [SeenSoFar EXCEPT ![url] = CurrentHash(content)]]
        /\ UNCHANGED <<cacheVars, seqVars, concVars, svcVars>>

NextSchema == \E url \in Urls, content \in Contents : Detect(url, content)

\* every function is called on a service just constructed
SpecSchema == Init /\ [][NextSchema]_vars

\* C13: the first detect_schema_changes call for a URL returns false; a
\* later call returns true exactly when the hash of its content differs
\* from the hash of the content of the call before it for the same URL;
\* after a call the baseline of its URL is the hash of its content, and the
\* baseline of every other URL is still the hash of the latest call made
\* for that URL.
C13_ChangeAgainstPrecedingCall ==
    inp.fn = "detect_schema_changes" =>
        /\ res = ( /\ inp.before # NoHash
                   /\ CurrentHash(inp.content) # inp.before )
        /\ hashes[inp.url] = CurrentHash(inp.content)
        /\ \A u \in Urls \ {inp.url} : hashes[u] = inp.seen[u]

\* a call found a change while the other URL has a baseline of its own
C13_Witness ==
    /\ inp.fn = "detect_schema_changes"
    /\ res = TRUE
    /\ \A u \in Urls : hashes[u] # NoHash

-----------------------------------------------------------------------------
(* Claims about the envelope's metadata (SpecScrape) *)

\* the rows extract_table_data finds in the page fetched for year y, none
\* when no page was fetched for it
RowsFetchedFor(y) ==
    IF \E i \in 1..Len(scr.raw) : scr.raw[i].year = y
    THEN LET i == CHOOSE i \in 1..Len(scr.raw) : scr.raw[i].year = y
         IN  ExtractTableData(scr.raw[i].page).rows
    ELSE << >>

\* C14: in the envelope metadata.record_count is the number of records,
\* metadata.years_with_data is the set of the years of the range whose page
\* was fetched and gave at least one row, and for every year the records
\* with that ano are as many as the rows of the year's page, so that every
\* record carries the year of the request it came from.
C14_MetadataCountsAndYears ==
    scr.status = "done" =>
        /\ Envelope.metadata.record_count = Len(Envelope.data)
        /\ Envelope.metadata.years_with_data =
              {y \in out.req.start_year..out.req.end_year :
                  Len(RowsFetchedFor(y)) > 0}
        /\ \A i \in 1..Len(Envelope.data) :
              Envelope.data[i].ano \in out.req.start_year..out.req.end_year
        /\ \A y \in out.req.start_year..out.req.end_year :
              Len(SelectSeq(Envelope.data, LAMBDA r : r.ano = y))
                  = Len(RowsFetchedFor(y))

\* one year of the range gave rows, another was given up or had no rows
C14_Witness ==
    /\ scr.status = "done"
    /\ out.req.start_year < out.req.end_year
    /\ Envelope.metadata.record_count > 0
    /\ \E y \in out.req.start_year..out.req.end_year :
          y \notin Envelope.metadata.years_with_data

-----------------------------------------------------------------------------
(* SpecDetect: callers of ViniDataService.detect_subcategory_from_data *)

MaxRecords == 3     \* the longest list of records passed

\* the Cultivar values of the records passed
Cultivars == {"Merlot", "Isabel", "Italia", "Goethe"}
DetectCategories == {"processamento", "producao", "importacao"}

CultivarRecords ==
    UNION {[1..n -> [Cultivar : Cultivars]] : n \in 0..MaxRecords}

DetectCall(category, data) ==
    /\ inp' = [fn |-> "detect_subcategory_from_data",
               category |-> category, data |-> data]
    /\ res' = DetectSubcategory(category, data)
    /\ UNCHANGED <<hashes, cacheVars, seqVars, concVars, svcVars>>

NextDetect ==
    \E category \in DetectCategories, data \in CultivarRecords :
        DetectCall(category, data)

SpecDetect == Init /\ [][NextDetect]_vars

\* the buckets of processamento in their order, and the bucket the tests of
\* the repository expect for a cultivar
Buckets == <<"viniferas", "americanas", "mesa">>
BucketOf(cultivar) ==
    CASE cultivar = "Merlot" -> "viniferas"
      [] cultivar = "Isabel" -> "americanas"
      [] cultivar = "Italia" -> "mesa"
      [] OTHER -> Absent

MatchCount(data, bucket) ==
    Len(SelectSeq(data, LAMBDA r : BucketOf(r.Cultivar) = bucket))

\* the first bucket with the highest count, Absent when nothing matches or
\* there are fewer than two records
DominantBucket(data) ==
    IF Len(data) < 2 \/ \A b \in 1..Len(Buckets) :
                            MatchCount(data, Buckets[b]) = 0
    THEN Absent
    ELSE Buckets[CHOOSE b \in 1..Len(Buckets) :
             /\ \A c \in 1..Len(Buckets) :
                   MatchCount(data, Buckets[c]) <= MatchCount(data, Buckets[b])
             /\ \A c \in 1..(b - 1) :
                   MatchCount(data, Buckets[c]) < MatchCount(data, Buckets[b])]

\* C15: detect_subcategory_from_data("processamento", records) returns the
\* bucket whose cultivars match the most records, the first such bucket
\* when counts tie, and null with fewer than two records or no match.
C15_DominantBucketDetected ==
    ( inp.fn = "detect_subcategory_from_data"
      /\ inp.category = "processamento" )
    => /\ ~res.raised
       /\ res.subcategory = DominantBucket(inp.data)

-----------------------------------------------------------------------------
(* SpecEndpoint: the post-processing of get_processamento and get_producao *)

\* cultivar_mapping of get_processamento and produto_mapping of get_producao
\* in the order of their keys, with the keywords that occur in the texts of
\* the model
CultivarMapping ==
    <<[name |-> "viniferas", keywords |-> {"cabernet", "merlot"}],
      [name |-> "americanas", keywords |-> {"isabel", "bordo"}],
      [name |-> "mesa", keywords |-> {"italia", "rubi"}]>>
ProdutoMapping ==
    <<[name |-> "uvas", keywords |-> {"uva", "cabernet"}],
      [name |-> "vinhos", keywords |-> {"vinho", "mesa"}],
      [name |-> "sucos", keywords |-> {"suco", "mosto"}],
      [name |-> "derivados", keywords |-> {"derivado", "grappa"}]>>

\* palavra in text.lower(): the keywords above that are substrings of a text
KeywordsIn(text) ==
    CASE text = "Merlot" -> {"merlot"}
      [] text = "Isabel" -> {"isabel"}
      [] text = "Italia" -> {"italia"}
      [] text = "Cabernet Bordo" -> {"cabernet", "bordo"}
      [] text = "Vinho de Mesa" -> {"vinho", "mesa"}
      [] text = "Suco de Uva" -> {"suco", "uva"}
      [] text = "Grappa" -> {"grappa"}
      [] OTHER -> {}

\* for ... in mapping.items(): if any(...): ...; break
RECURSIVE FirstMatch(_, _, _)
FirstMatch(mapping, text, i) ==
    IF i > Len(mapping) THEN Absent
    ELSE IF mapping[i].keywords \cap KeywordsIn(text) # {}
    THEN mapping[i].name
    ELSE FirstMatch(mapping, text, i + 1)

\* clean_unnecessary_headers: a record that repeats the header row is left
\* out
CleanUnnecessaryHeaders(data) ==
    SelectSeq(data, LAMBDA r : r.text # "Cultivar")

\* get_processamento, lines 73-106, on the data get_data returned
PostProcessamento(subcategoria, data) ==
    IF Len(data) = 0 THEN data
    ELSE LET cleaned == CleanUnnecessaryHeaders(data)
             classified(r) ==
                 IF r.subcategoria # Absent THEN r.subcategoria
                 ELSE IF FirstMatch(CultivarMapping, r.text, 1) # Absent
                 THEN FirstMatch(CultivarMapping, r.text, 1)
                 ELSE "semclassificacao"
         IN  IF subcategoria = Absent \/ subcategoria # "semclassificacao"
             THEN [i \in 1..Len(cleaned) |->
                     [cleaned[i] EXCEPT !.subcategoria =
                         IF subcategoria # Absent
                            /\ subcategoria # "semclassificacao"
                         THEN subcategoria
                         ELSE classified(cleaned[i])]]
             ELSE cleaned

\* get_producao, lines 70-114, on the data get_data returned
PostProducao(subcategoria, data) ==
    IF Len(data) = 0 THEN data
    ELSE LET cleaned == CleanUnnecessaryHeaders(data)
             classified(r) ==
                 IF r.subcategoria # Absent THEN r.subcategoria
                 ELSE IF FirstMatch(ProdutoMapping, r.text, 1) # Absent
                 THEN FirstMatch(ProdutoMapping, r.text, 1)
                 ELSE IF r.unidade = "Kg" THEN "uvas"
                 ELSE IF r.unidade = "L" THEN "vinhos"
                 ELSE "uvas"
         IN  [i \in 1..Len(cleaned) |->
                 [cleaned[i] EXCEPT !.subcategoria =
                     IF subcategoria # Absent THEN subcategoria
                     ELSE classified(cleaned[i])]]

\* the records get_data gives the endpoints: the text of Cultivar or
\* Produto, the Unidade, and no subcategoria
EndpointRecords(endpoint) ==
    IF endpoint = "processamento"
    THEN [text : {"Merlot", "Isabel", "Italia", "Cabernet Bordo", "Goethe",
                  "Cultivar"},
          unidade : {Absent}, subcategoria : {Absent}]
    ELSE [text : {"Vinho de Mesa", "Suco de Uva", "Grappa", "Outros"},
          unidade : {Absent, "Kg", "L"}, subcategoria : {Absent}]

EndpointSubcategorias(endpoint) ==
    IF endpoint = "processamento"
    THEN {Absent, "viniferas", "semclassificacao"}
    ELSE {Absent, "vinhos"}

PostProcess(endpoint, subcategoria, data) ==
    /\ inp = NoCall
    /\ inp' = [fn |-> "post_process", endpoint |-> endpoint,
               subcategoria |-> subcategoria, data |-> data]
    /\ res' = IF endpoint = "processamento"
              THEN PostProcessamento(subcategoria, data)
              ELSE PostProducao(subcategoria, data)
    /\ UNCHANGED <<hashes, cacheVars, seqVars, concVars, svcVars>>

NextEndpoint ==
    /\ inp = NoCall
    /\ \E endpoint \in {"processamento", "producao"} :
          \E subcategoria \in EndpointSubcategorias(endpoint) :
             \E n \in 1..MaxRecords :
                \E data \in [1..n -> EndpointRecords(endpoint)] :
                   PostProcess(endpoint, subcategoria, data)

SpecEndpoint == Init /\ [][NextEndpoint]_vars

\* what C16 expects a record to carry
ExpectedSubcategoria(endpoint, subcategoria, r) ==
    LET mapping == IF endpoint = "processamento" THEN CultivarMapping
                   ELSE ProdutoMapping
        default == IF endpoint = "processamento" THEN "semclassificacao"
                   ELSE "uvas"
    IN  IF subcategoria # Absent THEN subcategoria
        ELSE IF FirstMatch(mapping, r.text, 1) # Absent
        THEN FirstMatch(mapping, r.text, 1)
        ELSE default

\* C16: after the post-processing of a non-empty result every returned
\* record carries a subcategoria: the one the request supplied, or else the
\* first bucket in the order of the mapping with a keyword in the record,
\* or else the default bucket of the category.
C16_EveryRecordCarriesSubcategoria ==
    inp.fn = "post_process" =>
        \A i \in 1..Len(res) :
            res[i].subcategoria =
                ExpectedSubcategoria(inp.endpoint, inp.subcategoria, res[i])

-----------------------------------------------------------------------------
(* SpecFallback: _load_fallback_data on its own *)

\* every file self.fallback_files names
FallbackFiles ==
    {FallbackSingle[c] : c \in DOMAIN FallbackSingle}
        \cup UNION {{FallbackDict[c][k] : k \in DOMAIN FallbackDict[c]} :
                       c \in DOMAIN FallbackDict}

\* categories and subcategories the loader is called with: registered ones
\* and ones that are not
FallbackCategories ==
    DOMAIN FallbackSingle \cup DOMAIN FallbackDict \cup {"turismo"}
FallbackSubcategories ==
    {Absent, "default", "viniferas", "americanas", "mesa", "vinhos",
     "sucos", "uvas", "outra"}

\* the files on disk: file g in state k1, every other file in state k2
FileStates ==
    {[f \in FallbackFiles |-> IF f = g THEN k1 ELSE k2] :
        g \in FallbackFiles, k1 \in SnapshotKinds, k2 \in SnapshotKinds}

LoadFallback(category, subcategory, fs) ==
    /\ inp = NoCall
    /\ inp' = [fn |-> "load_fallback_data", category |-> category,
               subcategory |-> subcategory, fs |-> fs]
    /\ res' = LoadFallbackData(category, subcategory, fs)
    /\ UNCHANGED <<hashes, cacheVars, seqVars, concVars, svcVars>>

NextFallback ==
    /\ inp = NoCall
    /\ \E category \in FallbackCategories :
          \E subcategory \in FallbackSubcategories :
             \E fs \in FileStates :
                LoadFallback(category, subcategory, fs)

SpecFallback == Init /\ [][NextFallback]_vars

\* the file C17 names for (category, subcategory), Absent when the
\* category has none
ExpectedFile(category, subcategory) ==
    IF category \in DOMAIN FallbackDict
    THEN IF subcategory \in DOMAIN FallbackDict[category]
         THEN FallbackDict[category][subcategory]
         ELSE FallbackDict[category]["default"]
    ELSE IF category \in DOMAIN FallbackSingle
    THEN FallbackSingle[category]
    ELSE Absent

\* C17: _load_fallback_data reads the file of the subcategory when the
\* category has a file per subcategory and the subcategory is registered,
\* otherwise the default (or only) file of the category; a category with no
\* registered file gives no dataset; a dataset that is returned holds the
\* records of that file and its metadata has source "fallback_file", the
\* name of that file and record_count equal to the number of records.
C17_FallbackFileResolution ==
    inp.fn = "load_fallback_data" =>
        LET file == ExpectedFile(inp.category, inp.subcategory)
        IN  /\ file = Absent => res = None
            /\ res # None =>
                  /\ file # Absent
                  /\ res.metadata.source = "fallback_file"
                  /\ res.metadata.file = file
                  /\ res.data = SnapshotRecords(inp.fs[file])
                  /\ res.metadata.record_count = Len(res.data)

C17_Witness ==
    /\ inp.fn = "load_fallback_data"
    /\ inp.category = "processamento"
    /\ inp.subcategory = "americanas"
    /\ inp.fs["ProcessaAmericanas.csv"] = "first"
    /\ inp.fs["ProcessaViniferas.csv"] = "all"
    /\ res # None
    /\ res.metadata.file = "ProcessaAmericanas.csv"

-----------------------------------------------------------------------------
(* SpecRecover: _attempt_data_recovery on the text of a page.  A page is the
   sequence of its tables, a table the sequence of its tr elements, a tr the
   sequence of the stripped texts of its cells. *)

\* year when the URL has no ano parameter: None, false in `if year`
NoYear == 0

\* int(year_match.group(1)) of re.search(r'ano=(\d{4})', source_url); a
\* source_url is a record whose ano is the text after "ano=", Absent when
\* the URL has no such parameter
UrlYear(source_url) ==
    CASE source_url.ano = "1970" -> FirstYear
      [] source_url.ano = "1971" -> FirstYear + 1
      [] OTHER -> NoYear

\* headers: the text of a header cell, column_<position> when it is empty
RECURSIVE Headers(_, _)
Headers(header_row, i) ==
    IF i > Len(header_row) THEN << >>
    ELSE <<IF header_row[i] # "" THEN header_row[i]
           ELSE "column_" \o ToString(i - 1)>>
             \o Headers(header_row, i + 1)

\* the record of one data row with the year left out
RecordOfNoYear(headers, cells, year) ==
    LET used == {i \in 1..Len(cells) : i <= Len(headers)}
        own == {headers[i] : i \in used}
    IN  [k \in own |->
            cells[CHOOSE i \in used :
                     /\ headers[i] = k
                     /\ \A j \in used : headers[j] = k => j <= i]]

\* the record of one data row: cell i under header i, cells beyond the
\* headers ignored, a later cell replacing an earlier one with the same
\* header, and ano added from the URL when the row has none
RecordOf(headers, cells, year) ==
    LET used == {i \in 1..Len(cells) : i <= Len(headers)}
        own == {headers[i] : i \in used}
        keys == IF year # NoYear /\ "ano" \notin own
                THEN own \cup {"ano"} ELSE own
    IN  [k \in keys |->
            IF k \in own
            THEN cells[CHOOSE i \in used :
                          /\ headers[i] = k
                          /\ \A j \in used : headers[j] = k => j <= i]
            ELSE year]

\* the loop over table.find_all('tr')[1:]
RECURSIVE TableRecords(_, _, _, _)
TableRecords(headers, table, i, year) ==
    IF i > Len(table) THEN << >>
    ELSE LET record == RecordOf(headers, table[i], year)
             rest == TableRecords(headers, table, i + 1, year)
         IN  IF Len(table[i]) = 0 \/ DOMAIN record = {} THEN rest
             ELSE <<record>> \o rest

\* _parse_raw_html: the loop over the tables
RECURSIVE ParseRawHtmlText(_, _)
ParseRawHtmlText(html_content, source_url) ==
    IF Len(html_content) = 0 THEN << >>
    ELSE LET table == Head(html_content)
             rest == ParseRawHtmlText(Tail(html_content), source_url)
         IN  IF Len(table) = 0 THEN rest
             ELSE IF Len(Headers(table[1], 1)) = 0 THEN rest
             ELSE TableRecords(Headers(table[1], 1), table, 2,
                               UrlYear(source_url)) \o rest

\* _attempt_data_recovery of an envelope whose raw_html is html_content
AttemptDataRecoveryText(html_content, source_url) ==
    LET recovered_data == ParseRawHtmlText(html_content, source_url)
    IN  IF Len(recovered_data) > 0
        THEN [tag |-> "result", source_url |-> source_url,
              data |-> recovered_data]
        ELSE None

\* the rows of the pages tried: header rows of at most two cells, and data
\* rows with fewer cells than headers, as many, and more
HeaderRows == UNION {[1..n -> {"Cultivar", "ano", ""}] : n \in 0..2}
DataRows == {<< >>, <<"x">>, <<"x", "y">>, <<"y", "x">>, <<"x", "y", "x">>}
Tables ==
    {<< >>} \cup
    UNION {{<<h>> \o rows : h \in HeaderRows, rows \in [1..n -> DataRows]} :
              n \in 0..MaxRecords}
SourceUrls == [base : {"index.php"}, ano : {Absent, "1970", "1971"}]

Recover(html_content, source_url) ==
    /\ inp = NoCall
    /\ inp' = [fn |-> "attempt_data_recovery",
               html_content |-> html_content, source_url |-> source_url]
    /\ res' = AttemptDataRecoveryText(html_content, source_url)
    /\ UNCHANGED <<hashes, cacheVars, seqVars, concVars, svcVars>>

NextRecover ==
    /\ inp = NoCall
    /\ \E table \in Tables :
          \E source_url \in SourceUrls :
             \/ Recover(<<table>>, source_url)
             \/ /\ table = << >>
                /\ Recover(<< >>, source_url)

SpecRecover == Init /\ [][NextRecover]_vars

\* a page with one table whose header cells all have a text of their own
\* and whose data rows have one cell for every header
WellFormed(html_content) ==
    /\ Len(html_content) = 1
    /\ Len(html_content[1]) >= 1
    /\ LET header_row == html_content[1][1]
       IN  /\ Len(header_row) >= 1
           /\ \A i \in 1..Len(header_row) : header_row[i] # ""
           /\ \A i, j \in 1..Len(header_row) :
                 header_row[i] = header_row[j] => i = j
           /\ \A r \in 2..Len(html_content[1]) :
                 Len(html_content[1][r]) = Len(header_row)

Recovered == IF res = None THEN << >> ELSE res.data

\* C18: recovery from a page with one well-formed table of a header row and
\* n data rows gives n records, record r holding the cells of data row r
\* under the header texts, and every record with no ano column of its own
\* carries the year of the ano= parameter of the source URL.
C18_RecoveryKeepsRowsAndAnnotatesYear ==
    (inp.fn = "attempt_data_recovery" /\ WellFormed(inp.html_content)) =>
        LET table == inp.html_content[1]
            header_row == table[1]
            own == {header_row[i] : i \in 1..Len(header_row)}
        IN  /\ Len(Recovered) = Len(table) - 1
            /\ \A r \in 1..Len(Recovered) :
                  /\ own \subseteq DOMAIN Recovered[r]
                  /\ DOMAIN Recovered[r] \subseteq own \cup {"ano"}
                  /\ \A i \in 1..Len(header_row) :
                        Recovered[r][header_row[i]] = table[r + 1][i]
                  /\ ("ano" \notin own /\ inp.source_url.ano # Absent) =>
                        /\ "ano" \in DOMAIN Recovered[r]
                        /\ Recovered[r]["ano"] = UrlYear(inp.source_url)

C18_Witness ==
    /\ inp.fn = "attempt_data_recovery"
    /\ WellFormed(inp.html_content)
    /\ inp.html_content[1][1] = <<"Cultivar">>
    /\ Len(inp.html_content[1]) = 3
    /\ inp.source_url.ano = "1971"
    /\ Len(Recovered) = 2
    /\ Recovered[1]["ano"] = FirstYear + 1

-----------------------------------------------------------------------------
(* SpecSanitize: _sanitize_for_json on records whose values are spelled out.
   A value is [t |-> "str", s |-> the sequence of its characters],
   [t |-> "int", n |-> n], [t |-> "float", digits |-> d, decimals |-> k] for
   d / 10^k, [t |-> "nan"] or [t |-> "null"] for None. *)

Null == [t |-> "null"]
Str(chars) == [t |-> "str", s |-> chars]

\* str.strip()
RECURSIVE LStrip(_)
LStrip(s) == IF Len(s) > 0 /\ Head(s) = " " THEN LStrip(Tail(s)) ELSE s
RECURSIVE RStrip(_)
RStrip(s) ==
    IF Len(s) > 0 /\ s[Len(s)] = " " THEN RStrip(SubSeq(s, 1, Len(s) - 1))
    ELSE s
Strip(s) == RStrip(LStrip(s))

\* p in s
IsSubstring(p, s) ==
    \E i \in 0..(Len(s) - Len(p)) : SubSeq(s, i + 1, i + Len(p)) = p

\* s.replace(c, with) for a single character c
RECURSIVE Replace(_, _, _)
Replace(s, c, with) ==
    IF Len(s) = 0 THEN << >>
    ELSE (IF Head(s) = c THEN with ELSE <<Head(s)>>)
            \o Replace(Tail(s), c, with)

\* str.lower() on the letters of the texts searched for
LowerChar(c) ==
    CASE c = "D" -> "d" [] c = "O" -> "o" [] c = "W" -> "w"
      [] c = "N" -> "n" [] c = "L" -> "l" [] c = "A" -> "a"
      [] c = "T" -> "t" [] c = "P" -> "p" [] OTHER -> c
Lower(s) == [i \in 1..Len(s) |-> LowerChar(s[i])]

Digits == <<"0", "1", "2", "3", "4", "5", "6", "7", "8", "9">>
DigitValue(c) == (CHOOSE i \in 1..Len(Digits) : Digits[i] = c) - 1

\* str.isdigit()
IsDigit(s) ==
    /\ Len(s) > 0
    /\ \A i \in 1..Len(s) : \E d \in 1..Len(Digits) : Digits[d] = s[i]

\* int(s) for a string of digits
RECURSIVE IntOf(_)
IntOf(s) ==
    IF Len(s) = 0 THEN 0
    ELSE 10 * IntOf(SubSeq(s, 1, Len(s) - 1)) + DigitValue(s[Len(s)])

\* float(s) for digits around one "."
FloatOf(s) ==
    LET dot == CHOOSE i \in 1..Len(s) : s[i] = "."
    IN  [t |-> "float", digits |-> IntOf(Replace(s, ".", << >>)),
         decimals |-> Len(s) - dot]

\* clean_value that leaves "-" alone
CleanValueKeepsDash(value) ==
    IF value.t = "str" /\ Strip(value.s) = << >> THEN Null
    ELSE IF value.t = "nan" THEN Null
    ELSE value

\* clean_value of _sanitize_for_json, lines 649-697; float() raises
\* ValueError on a text with more than one ".", which the except passes
CleanValue(value) ==
    IF value.t = "str"
    THEN IF Strip(value.s) \in {<< >>, <<"-">>} THEN Null
         ELSE IF IsSubstring(<<",">>, value.s)
                 /\ ~IsSubstring(<<".">>, value.s)
         THEN LET cleaned_val ==
                      Replace(Replace(value.s, ".", << >>), ",", <<".">>)
              IN  IF IsDigit(Replace(cleaned_val, ".", << >>))
                  THEN IF IsSubstring(<<".">>, cleaned_val)
                       THEN IF Len(cleaned_val)
                                 - Len(Replace(cleaned_val, ".", << >>)) = 1
                            THEN FloatOf(cleaned_val)
                            ELSE value
                       ELSE [t |-> "int", n |-> IntOf(cleaned_val)]
                  ELSE value
         ELSE value
    ELSE IF value.t = "nan" THEN Null
    ELSE value

\* col.startswith('column_') or 'copyright' / 'livramento' / 'embrapa' in
\* col.lower(), for the column names of the model
RemovedColumn(col) == col \in {"column_2", "Copyright Embrapa"}

\* str(v).strip() alone, which is never empty for None or a number
NonEmptyText(v) ==
    IF v.t = "str" THEN Strip(v.s) # << >> ELSE TRUE

\* v and str(v).strip(): None, 0 and 0.0 are falsy, nan is not
NonEmpty(v) ==
    CASE v.t = "str" -> Strip(v.s) # << >>
      [] v.t = "int" -> v.n # 0
      [] v.t = "float" -> v.digits # 0
      [] v.t = "null" -> FALSE
      [] OTHER -> TRUE

\* any(nav in str(item.values()) for nav in [...])
IsNavigation(item) ==
    \E k \in DOMAIN item :
       /\ item[k].t = "str"
       /\ \E nav \in {<<"D", "O", "W", "N", "L", "O", "A", "D">>,
                       <<"T", "O", "P", "O">>} :
             IsSubstring(nav, item[k].s)

\* a value _clean_data_for_export leaves out: a long descriptive text
LongMetadata(v) ==
    /\ v.t = "str"
    /\ Len(v.s) > 200
    /\ \/ IsSubstring(<<"b", "a", "n", "c", "o", " ", "d", "e", " ", "d", "a", "d", "o", "s">>, Lower(v.s))
       \/ IsSubstring(<<"d", "o", "w", "n", "l", "o", "a", "d">>, Lower(v.s))

\* the clean_item _clean_data_for_export builds from an item
CleanItem(item, columns_to_remove) ==
    [k \in {c \in DOMAIN item :
               c \notin columns_to_remove /\ ~LongMetadata(item[c])} |->
        IF item[k].t = "str" THEN Str(Strip(item[k].s)) ELSE item[k]]

\* the positions of data whose item _clean_data_for_export keeps
KeptIndices(data) ==
    LET all_keys == UNION {DOMAIN data[i] : i \in 1..Len(data)}
        columns_to_remove == {col \in all_keys : RemovedColumn(col)}
    IN  {i \in 1..Len(data) :
            /\ ~IsNavigation(data[i])
            /\ Cardinality({k \in DOMAIN data[i] : NonEmpty(data[i][k])}) > 1
            /\ Cardinality(DOMAIN CleanItem(data[i], columns_to_remove)) > 1}

\* _clean_data_for_export, lines 804-862
RECURSIVE CleanFrom(_, _, _)
CleanFrom(data, i, columns_to_remove) ==
    IF i > Len(data) THEN << >>
    ELSE (IF i \in KeptIndices(data)
          THEN <<CleanItem(data[i], columns_to_remove)>> ELSE << >>)
            \o CleanFrom(data, i + 1, columns_to_remove)
CleanDataForExport(data) ==
    CleanFrom(data, 1,
              {col \in UNION {DOMAIN data[i] : i \in 1..Len(data)} :
                  RemovedColumn(col)})

\* _sanitize_for_json, lines 631-706
SanitizeForJsonText(data) ==
    IF Len(data) = 0 THEN << >>
    ELSE LET cleaned_data == CleanDataForExport(data)
         IN  [i \in 1..Len(cleaned_data) |->
                 [k \in DOMAIN cleaned_data[i] |->
                     CleanValue(cleaned_data[i][k])]]

\* the values of the records sanitized
SampleValues ==
    {Str(<<"-">>), Str(<< >>), Str(<<" ", "-", " ">>),
     Str(<<"A", "r", "r", "i", "l", "o", "b", "a">>),
     Str(<<"1", "2", "3", ",", "4", "5">>),
     Str(<<"1", ".", "2", "3", "4", ".", "5", "6", "7", ",", "8", "9">>),
     Str(<<"4", ".", "5", "4", "8", ".", "3", "1", "3">>),
     Str(<<"1", ",", "2", ",", "3">>),
     Str(<<"0", ",", "0">>),
     Str(<<"T", "O", "P", "O">>),
     Null, [t |-> "nan"], [t |-> "int", n |-> 0], [t |-> "int", n |-> 5]}

SampleRecords ==
    [{"quantidade"} -> SampleValues]
        \cup [{"cultivar", "quantidade"} -> SampleValues]
        \cup {[k \in {"cultivar", "quantidade", "column_2"} |->
                 IF k = "column_2" THEN c ELSE r[k]] :
                 r \in [{"cultivar", "quantidade"} -> SampleValues],
                 c \in {Str(<<"-">>), Str(<<"x">>)}}

\* the second record of test_dash_string_handling
Barbera ==
    [k \in {"cultivar", "quantidade"} |->
        IF k = "cultivar" THEN Str(<<"B", "a", "r", "b", "e", "r", "a">>)
        ELSE Str(<<"4", ".", "5", "4", "8", ".", "3", "1", "3">>)]

SampleData ==
    {<< >>} \cup {<<r>> : r \in SampleRecords}
        \cup {<<r, Barbera>> : r \in SampleRecords}
        \cup {<<Barbera, r>> : r \in SampleRecords}

Sanitize(data) ==
    /\ inp = NoCall
    /\ inp' = [fn |-> "sanitize_for_json", data |-> data]
    /\ res' = SanitizeForJsonText(data)
    /\ UNCHANGED <<hashes, cacheVars, seqVars, concVars, svcVars>>

NextSanitize ==
    /\ inp = NoCall
    /\ \E data \in SampleData : Sanitize(data)

SpecSanitize == Init /\ [][NextSanitize]_vars

\* the position in the output of the kept input record i
OutputIndex(i) == Cardinality({j \in KeptIndices(inp.data) : j <= i})

IsDash(v) == v = Str(<<"-">>)

NoDashOrEmptyLeft ==
    \A p \in 1..Len(res) :
       \A k \in DOMAIN res[p] :
          res[p][k] # Str(<<"-">>) /\ res[p][k] # Str(<< >>)

\* the records the structural cleaning keeps, said without the code: no
\* navigation text, two or more non-empty values, and two or more columns
\* other than column_* and copyright columns
Structured(data, i) ==
    /\ ~IsNavigation(data[i])
    /\ Cardinality({k \in DOMAIN data[i] : NonEmpty(data[i][k])}) >= 2
    /\ Cardinality({k \in DOMAIN data[i] : ~RemovedColumn(k)}) >= 2

\* C19 (as stated): every record passed to _sanitize_for_json with a field
\* whose value is "-" is in the output with that field null, and no output
\* record keeps "-" or an empty string as a value.
C19_EveryDashRecordKeptWithNull ==
    inp.fn = "sanitize_for_json" =>
        /\ \A i \in 1..Len(inp.data) :
              \A k \in DOMAIN inp.data[i] :
                 IsDash(inp.data[i][k]) =>
                    /\ i \in KeptIndices(inp.data)
                    /\ k \in DOMAIN res[OutputIndex(i)]
                    /\ res[OutputIndex(i)][k] = Null
        /\ NoDashOrEmptyLeft

\* C19 (amended): every record that the structural cleaning keeps is in the
\* output, in order, with each of its kept fields whose value is "-" null;
\* no output record keeps "-" or an empty string as a value.
C19_KeptRecordsHaveNullForDash ==
    inp.fn = "sanitize_for_json" =>
        /\ \A i \in 1..Len(inp.data) :
              Structured(inp.data, i) =>
                 /\ i \in KeptIndices(inp.data)
                 /\ OutputIndex(i) \in 1..Len(res)
                 /\ \A k \in DOMAIN inp.data[i] :
                       (IsDash(inp.data[i][k]) /\ ~RemovedColumn(k)) =>
                          /\ k \in DOMAIN res[OutputIndex(i)]
                          /\ res[OutputIndex(i)][k] = Null
        /\ Len(res) = Cardinality(KeptIndices(inp.data))
        /\ NoDashOrEmptyLeft

C19_Witness ==
    /\ inp.fn = "sanitize_for_json"
    /\ Len(inp.data) = 2
    /\ inp.data[2] = Barbera
    /\ DOMAIN inp.data[1] = {"cultivar", "quantidade"}
    /\ inp.data[1]["cultivar"] = Str(<<"A", "r", "r", "i", "l", "o", "b", "a">>)
    /\ IsDash(inp.data[1]["quantidade"])
    /\ Len(res) = 2
    /\ res[1]["quantidade"] = Null

\* the number a text in the locale format denotes: "." separates thousands,
\* "," the decimals
LocaleNumber(v) ==
    CASE v = Str(<<"1", ".", "2", "3", "4", ".", "5", "6", "7", ",", "8", "9">>) ->
           [t |-> "float", digits |-> 123456789, decimals |-> 2]
      [] v = Str(<<"1", "2", "3", ",", "4", "5">>) ->
           [t |-> "float", digits |-> 12345, decimals |-> 2]
      [] OTHER -> Null

\* C20: _sanitize_for_json turns every string in the locale numeric format
\* into the number it denotes: "1.234.567,89" into 1234567.89 and "123,45"
\* into 123.45.
C20_LocaleNumbersConverted ==
    inp.fn = "sanitize_for_json" =>
        \A i \in KeptIndices(inp.data) :
           \A k \in DOMAIN res[OutputIndex(i)] :
              LocaleNumber(inp.data[i][k]) # Null =>
                 res[OutputIndex(i)][k] = LocaleNumber(inp.data[i][k])

-----------------------------------------------------------------------------
(* SpecWide: the reshaping step of _load_fallback_data.  A snapshot read by
   pandas is the sequence of its column names and a number of rows; the cell
   of row r in column c is [row |-> r, col |-> c]. *)

\* pd.to_numeric of a column name that is a year
ToNumeric(col) ==
    CASE col = "1970" -> FirstYear
      [] col = "1971" -> FirstYear + 1

\* WideToLong that melts the first year column alone
WideToLongFirstYearOnly(columns, nrows) ==
    LET year_columns == SelectSeq(columns, LAMBDA c : c \in {"1970", "1971"})
        id_cols == SelectSeq(columns, LAMBDA c : c \notin {"1970", "1971"})
    IN  IF Len(year_columns) = 0 THEN << >>
        ELSE [p \in 1..nrows |->
                [k \in {id_cols[i] : i \in 1..Len(id_cols)}
                          \cup {"ano", "valor"} |->
                    IF k = "ano" THEN ToNumeric(year_columns[1])
                    ELSE IF k = "valor"
                    THEN [row |-> p, col |-> year_columns[1]]
                    ELSE [row |-> p, col |-> k]]]

\* _load_fallback_data, lines 559-591, followed by to_dict('records'):
\* year_columns are the columns named by digits, id_cols the columns with a
\* known identifier name or else the first column that is no year; pd.melt
\* gives, for every year column in turn, one record per row
WideToLong(columns, nrows) ==
    LET year_columns == SelectSeq(columns, LAMBDA c : c \in {"1970", "1971"})
        named == SelectSeq(columns, LAMBDA c : c \in {"id", "produto"})
        others == SelectSeq(columns, LAMBDA c : c \notin {"1970", "1971"})
        id_cols == IF Len(named) = 0 /\ Len(columns) > Len(year_columns)
                   THEN <<others[1]>> ELSE named
        ids == {id_cols[i] : i \in 1..Len(id_cols)}
    IN  IF Len(year_columns) > 0 /\ Len(id_cols) > 0
        THEN [p \in 1..(Len(year_columns) * nrows) |->
                LET y == year_columns[((p - 1) \div nrows) + 1]
                    r == ((p - 1) % nrows) + 1
                IN  [k \in ids \cup {"ano", "valor"} |->
                        IF k = "ano" THEN ToNumeric(y)
                        ELSE IF k = "valor" THEN [row |-> r, col |-> y]
                        ELSE [row |-> r, col |-> k]]]
        ELSE [r \in 1..nrows |->
                [k \in {columns[i] : i \in 1..Len(columns)} |->
                    [row |-> r, col |-> k]]]

\* the header lines of the snapshots read: up to four distinct columns
WideColumns ==
    {cs \in UNION {[1..n -> {"id", "produto", "Regiao", "1970", "1971"}] :
                      n \in 1..4} :
        \A i, j \in 1..Len(cs) : cs[i] = cs[j] => i = j}

LoadWide(columns, nrows) ==
    /\ inp = NoCall
    /\ inp' = [fn |-> "wide_to_long", columns |-> columns, nrows |-> nrows]
    /\ res' = WideToLong(columns, nrows)
    /\ UNCHANGED <<hashes, cacheVars, seqVars, concVars, svcVars>>

NextWide ==
    /\ inp = NoCall
    /\ \E columns \in WideColumns :
          \E nrows \in 0..MaxRecords : LoadWide(columns, nrows)

SpecWide == Init /\ [][NextWide]_vars

\* C21: a snapshot in wide format (identifier columns and one column per
\* year) is loaded as one record per pair of row and year column, with the
\* year as a number under ano and the cell under valor, so the number of
\* records is rows times year columns.
C21_WideSnapshotMeltedPerRowAndYear ==
    LET cols == {inp.columns[i] : i \in 1..Len(inp.columns)}
        years == cols \cap {"1970", "1971"}
    IN  (/\ inp.fn = "wide_to_long"
         /\ years # {}
         /\ cols \ years # {}) =>
            /\ Len(res) = inp.nrows * Cardinality(years)
            /\ \A r \in 1..inp.nrows :
                  \A y \in years :
                     Cardinality({p \in 1..Len(res) :
                                     /\ {"ano", "valor"} \subseteq DOMAIN res[p]
                                     /\ res[p]["ano"] = ToNumeric(y)
                                     /\ res[p]["valor"] = [row |-> r, col |-> y]}) = 1

C21_Witness ==
    /\ inp.fn = "wide_to_long"
    /\ inp.columns = <<"id", "produto", "1970", "1971">>
    /\ inp.nrows = 2
    /\ Len(res) = 4
    /\ res[3]["ano"] = FirstYear + 1
    /\ res[3]["id"] = [row |-> 1, col |-> "id"]

-----------------------------------------------------------------------------
(* Claims on the concurrent callers of ResilientCache (SpecConc) *)

\* C22 (as stated): fetch_fn runs under the lock, so while one caller's get
\* is executing fetch_fn no other caller is inside a get for the same key
\* past its first look at the fresh store.
C22_SlowFetchBlocksSameKey ==
    \A t \in Threads :
       th[t].pc = "get_fetch" =>
          /\ lock = t
          /\ \A u \in Threads \ {t} :
                (th[u].inGet /\ th[u].pc # "idle") => th[u].k # th[t].k

\* C22 (amended): the sections of get, set, invalidate and clear that touch
\* the stores run under the one lock, and fetch_fn runs between the sections
\* of get with the lock released, so other callers are not held back by it.
C22_FetchRunsWithLockReleased ==
    \A t \in Threads :
       /\ th[t].pc = "get_fetch" => lock # t
       /\ th[t].pc \in {"set_fresh", "set_hist"} <=> lock = t

\* one caller is still to return from fetch_fn while the other, in a get
\* for the same key, holds the lock to store what its own fetch returned
C22_Witness ==
    /\ th["t1"].pc = "get_fetch"
    /\ th["t2"].inGet
    /\ th["t2"].pc = "set_hist"
    /\ th["t2"].k = th["t1"].k
    /\ lock = "t2"

\* C24: concurrent gets of a key missing from the fresh store may each call
\* fetch_fn; every caller is given the value its own fetch returned, and
\* when a caller's set completes both stores hold that caller's value for
\* the key (the fresh store while the entry has not expired), so after both
\* have finished the stores agree on the value of the later set.
C24_EachCallerOwnValueLaterSetWins ==
    [][\A t \in Threads :
          /\ (th[t].pc = "get_fetch" /\ th'[t].pc = "set_lock") =>
                th'[t].v = th[t].f.v
          /\ (th[t].pc \in {"set_lock", "set_fresh"} /\ th'[t] # th[t]) =>
                (th'[t].v = th[t].v /\ th'[t].k = th[t].k)
          /\ (th[t].pc = "set_hist" /\ th'[t].pc = "idle") =>
                /\ th[t].inGet => th'[t].ret = th[t].v
                /\ LRUContains(hist', th[t].k)
                /\ ValueOf(hist', th[t].k) = th[t].v
                /\ TTLContains(fresh', th[t].k, now') =>
                      ValueOf(fresh', th[t].k) = th[t].v]_vars

\* both callers have fetched different values for the same key: one is
\* completing its set, the other waits for the lock to make the later set,
\* and the fresh store already holds the first caller's value
C24_Witness ==
    /\ th["t1"].pc = "set_hist"
    /\ th["t1"].inGet
    /\ th["t2"].pc = "set_lock"
    /\ th["t2"].inGet
    /\ th["t2"].k = th["t1"].k
    /\ th["t2"].v # th["t1"].v
    /\ TTLContains(fresh, th["t1"].k, now)

-----------------------------------------------------------------------------
(* Claims on the live fetch of get_data (Spec) *)

\* the scrape a get_data call made, as out records it
LiveScrape ==
    RunScrape(ScrapeBegin(out.req.start_year, out.req.end_year), out.network)

LiveEnvelope ==
    ScrapedData(out.req, LiveScrape, RawHtmlAfter(LiveScrape, << >>))

\* the payload is rejected: it has records, and none of the first ten has
\* more than one key
Rejected(data) ==
    /\ Len(data) > 0
    /\ \A i \in 1..Len(data) : i <= ValidationSample => data[i].nkeys <= 1

\* what the recovery parser makes of the page kept in the envelope
RecoveredRecords ==
    IF LiveEnvelope.raw_html.page = NoPage THEN << >>
    ELSE ParseRawHtml(LiveEnvelope.raw_html)

-----------------------------------------------------------------------------
(* Claims on the fresh store and on the cache key *)

\* the time at which the entry of k in the fresh store was stored
StoredAt(k) == fresh[IndexOf(fresh, k, 1)].exp - Ttl

\* C25: an entry of the fresh store is there since the set that stored it
\* (invalidate, clear and eviction remove it).  Right after set(k, v) the
\* entry of k holds v; while the entry is younger than the TTL, get(k,
\* fetch_fn) returns its value, the last one set for k, and does not call
\* fetch_fn; once it is older than the TTL, get(k, fetch_fn) calls fetch_fn.
C25_FreshUntilTtl ==
    /\ lastOp.op = "set" =>
          /\ HasKey(fresh, lastOp.k)
          /\ ValueOf(fresh, lastOp.k) = lastSet[lastOp.k]
          /\ StoredAt(lastOp.k) = now
    /\ \A k \in Keys :
          HasKey(fresh, k) =>
             \A f \in Fetches \ {NoFetch} :
                LET r == RCGet(CacheState, k, f, now)
                IN  /\ now - StoredAt(k) < Ttl =>
                          /\ r.calls = 0
                          /\ r.ret = ValueOf(fresh, k)
                          /\ r.ret = lastSet[k]
                    /\ now - StoredAt(k) > Ttl => r.calls = 1

\* a value was set for k1 and more than the TTL has passed since
C25_Witness ==
    /\ HasKey(fresh, "k1")
    /\ now - StoredAt("k1") > Ttl
    /\ lastSet["k1"] = ValueOf(fresh, "k1")
    /\ RCGet(CacheState, "k1", Raises, now).calls = 1

-----------------------------------------------------------------------------
(* SpecFilter: the end of get_data, _filter_data by years followed by
   _sanitize_for_json, on records whose values are spelled out *)

\* the value _filter_data reads as the year of an item: ano, else Ano
YearValue(item) ==
    IF "ano" \in DOMAIN item THEN item["ano"]
    ELSE IF "Ano" \in DOMAIN item THEN item["Ano"]
    ELSE Null

\* (mutant) the year filter without the upper limit
FilterDataTextFromStart(data, start_year, end_year) ==
    SelectSeq(data, LAMBDA item :
        CASE YearValue(item).t = "str" ->
               /\ IsDigit(Strip(YearValue(item).s))
               /\ start_year <= IntOf(Strip(YearValue(item).s))
          [] YearValue(item).t = "int" -> start_year <= YearValue(item).n
          [] OTHER -> TRUE)

\* _filter_data, lines 896-927, with no other filter given: a year that is
\* a string is converted by int(), and the item skipped when that raises
FilterDataText(data, start_year, end_year) ==
    SelectSeq(data, LAMBDA item :
        CASE YearValue(item).t = "str" ->
               /\ IsDigit(Strip(YearValue(item).s))
               /\ start_year <= IntOf(Strip(YearValue(item).s))
               /\ IntOf(Strip(YearValue(item).s)) <= end_year
          [] YearValue(item).t = "int" ->
               /\ start_year <= YearValue(item).n
               /\ YearValue(item).n <= end_year
          [] OTHER -> TRUE)

\* the years records come with: either side of the modelled years, as
\* integers and as texts, texts that are no integer, and None
YearValues ==
    {[t |-> "int", n |-> y] : y \in (FirstYear - 1)..(FirstYear + MaxYears)}
        \cup {Str(<<"1", "9", "6", "9">>), Str(<<"1", "9", "7", "0">>),
              Str(<<" ", "1", "9", "7", "1">>), Str(<<"1", "9", "x">>),
              Str(<< >>), Null}

\* records with no year field, with ano, with Ano, and with both
YearRecords ==
    LET rest == [{"cultivar"} -> {Str(<<"M">>), Str(<< >>)}]
                   \cup [{"cultivar", "quantidade"} ->
                            {Str(<<"M">>), Str(<< >>)}]
        With(r, k, v) == [f \in DOMAIN r \cup {k} |-> IF f = k THEN v ELSE r[f]]
    IN  rest
          \cup {With(r, "ano", v) : r \in rest, v \in YearValues}
          \cup {With(r, "Ano", v) : r \in rest, v \in YearValues}
          \cup {With(With(r, "Ano", [t |-> "int", n |-> FirstYear]), "ano", v) :
                   r \in rest, v \in YearValues}

FilterCall(data, start_year, end_year) ==
    /\ inp = NoCall
    /\ inp' = [fn |-> "filter_data", data |-> data,
               start_year |-> start_year, end_year |-> end_year]
    /\ \E filtered \in {FilterDataText(data, start_year, end_year)} :
          res' = [filtered |-> filtered,
                  returned |-> SanitizeForJsonText(filtered)]
    /\ UNCHANGED <<hashes, cacheVars, seqVars, concVars, svcVars>>

NextFilter ==
    /\ inp = NoCall
    /\ \E r \in YearRecords, start_year \in ModelYears, end_year \in ModelYears :
          /\ start_year <= end_year
          /\ \E data \in {<<r>>, <<r, Barbera>>, <<Barbera, r>>} :
                FilterCall(data, start_year, end_year)

SpecFilter == Init /\ [][NextFilter]_vars

\* the year a value holds when it is an integer or the text of one
HoldsYear(v) ==
    \/ v.t = "int"
    \/ v.t = "str" /\ IsDigit(Strip(v.s))
YearHeld(v) == IF v.t = "int" THEN v.n ELSE IntOf(Strip(v.s))

\* C26: every record of the data get_data returns whose year field (ano,
\* or Ano when there is no ano) holds an integer or the text of an integer
\* has start_year <= year <= end_year; the year filter keeps every record
\* without a year field and drops every record whose year is a text that
\* is no integer.
C26_ReturnedYearsInRange ==
    inp.fn = "filter_data" =>
        /\ \A p \in 1..Len(res.returned) :
              HoldsYear(YearValue(res.returned[p])) =>
                 /\ inp.start_year <= YearHeld(YearValue(res.returned[p]))
                 /\ YearHeld(YearValue(res.returned[p])) <= inp.end_year
        /\ \A p \in 1..Len(res.filtered) :
              \E i \in 1..Len(inp.data) : inp.data[i] = res.filtered[p]
        /\ \A i \in 1..Len(inp.data) :
              LET item == inp.data[i]
                  kept == \E p \in 1..Len(res.filtered) : res.filtered[p] = item
              IN  /\ DOMAIN item \cap {"ano", "Ano"} = {} => kept
                  /\ (YearValue(item).t = "str" /\ ~HoldsYear(YearValue(item))) =>
                        ~kept
                  /\ (HoldsYear(YearValue(item))
                      /\ inp.start_year <= YearHeld(YearValue(item))
                      /\ YearHeld(YearValue(item)) <= inp.end_year) => kept

\* a record whose year is the text of a year after end_year is filtered out
\* while the record without a year field that came with it is returned
C26_Witness ==
    /\ inp.fn = "filter_data"
    /\ Len(inp.data) = 2
    /\ inp.data[2] = Barbera
    /\ "ano" \in DOMAIN inp.data[1]
    /\ inp.data[1]["ano"] = Str(<<" ", "1", "9", "7", "1">>)
    /\ inp.end_year = FirstYear
    /\ res.filtered = <<Barbera>>
    /\ Len(res.returned) = 1

-----------------------------------------------------------------------------
(* Claims on a second pass of _sanitize_for_json (SpecSanitize) *)

\* a value Python takes as true
Truthy(v) ==
    \/ v.t = "str" /\ v.s # << >>
    \/ v.t = "int" /\ v.n # 0
    \/ v.t = "float" /\ v.digits # 0
    \/ v.t = "nan"

\* C30 (as stated): _sanitize_for_json is idempotent, sanitizing the
\* sanitized output returns the same list of records.
C30_SanitizeIdempotent ==
    inp.fn = "sanitize_for_json" => SanitizeForJsonText(res) = res

\* C30: sanitizing the sanitized output changes no value and keeps the
\* order of the records, and it drops exactly the records the first pass
\* left with at most one true value (a "-" or a blank turned into None, a
\* "0,0" turned into 0.0).
C30_SecondPassOnlyDropsSparseRecords ==
    inp.fn = "sanitize_for_json" =>
        SanitizeForJsonText(res) =
            SelectSeq(res, LAMBDA item :
                Cardinality({k \in DOMAIN item : Truthy(item[k])}) > 1)

\* a record whose quantity was "-" is in the output with None, next to one
\* that stays, and a second pass drops it
C30_Witness ==
    /\ inp.fn = "sanitize_for_json"
    /\ Len(res) = 2
    /\ res[1]["quantidade"] = Null
    /\ res[2] = [Barbera EXCEPT !["quantidade"] = CleanValue(@)]
    /\ Len(SanitizeForJsonText(res)) = 1

-----------------------------------------------------------------------------
(* SpecKey: the cache key get_data builds, lines 80-101, for two calls *)

\* _map_product_type_to_subcategory for the product types of the model
MapProductTypeToSubcategory(category, product_type) ==
    IF category = "processamento" /\ product_type = "mesa" THEN "mesa"
    ELSE IF category = "processamento" /\ product_type = "americanas"
    THEN "americanas"
    ELSE Absent

\* lines 80-82: the subcategory after the mapping of the product type
EffectiveSubcategory(call) ==
    IF call.subcategory = Absent /\ call.product_type # Absent
    THEN MapProductTypeToSubcategory(call.category, call.product_type)
    ELSE call.subcategory

\* lines 84-101: the texts are put one after the other, each filter behind
\* its letter and with nothing between one filter and the next
FullCacheKey(call) ==
    LET subcategory == EffectiveSubcategory(call)
        filters == <<call.region, call.product_type, call.channel,
                     call.origin, call.destination>>
        Part(letter, v) == IF v # Absent THEN letter \o v ELSE ""
    IN  call.category
          \o (IF subcategory # Absent THEN "_" \o subcategory ELSE "")
          \o "_" \o ToString(call.start_year)
          \o "_" \o ToString(call.end_year)
          \o (IF \E i \in 1..5 : filters[i] # Absent
              THEN "_filters_" \o Part("r", call.region)
                     \o Part("p", call.product_type)
                     \o Part("c", call.channel)
                     \o Part("o", call.origin)
                     \o Part("d", call.destination)
              ELSE "")

\* the optional filters of the calls
KeyFilters ==
    LET F(r, p, c, o, d) == [region |-> r, product_type |-> p, channel |-> c,
                             origin |-> o, destination |-> d]
    IN  {F(Absent, Absent, Absent, Absent, Absent),
         F("Sul", Absent, Absent, Absent, Absent),
         F("Sul", Absent, "x", Absent, Absent),
         F("Sulcx", Absent, Absent, Absent, Absent),
         F(Absent, "mesa", Absent, Absent, Absent),
         F(Absent, Absent, "mesa", Absent, Absent),
         F(Absent, Absent, Absent, "Chile", Absent),
         F(Absent, Absent, Absent, Absent, "Chile")}

KeyCalls ==
    {[category |-> c, subcategory |-> s, start_year |-> y1, end_year |-> y2,
      region |-> f.region, product_type |-> f.product_type,
      channel |-> f.channel, origin |-> f.origin,
      destination |-> f.destination] :
        c \in {"producao", "processamento"}, s \in {Absent, "mesa"},
        y1 \in ModelYears, y2 \in ModelYears, f \in KeyFilters}

\* the inputs the key is built from, with the subcategory after the mapping
KeyTuple(call) ==
    <<call.category, EffectiveSubcategory(call), call.start_year,
      call.end_year, call.region, call.product_type, call.channel,
      call.origin, call.destination>>

BuildKeys(a, b) ==
    /\ inp = NoCall
    /\ inp' = [fn |-> "cache_key", a |-> a, b |-> b]
    /\ res' = [a |-> FullCacheKey(a), b |-> FullCacheKey(b)]
    /\ UNCHANGED <<hashes, cacheVars, seqVars, concVars, svcVars>>

NextKey ==
    /\ inp = NoCall
    /\ \E a \in KeyCalls, b \in KeyCalls :
          /\ a.start_year <= a.end_year
          /\ b.start_year <= b.end_year
          /\ a.start_year <= b.start_year
          /\ BuildKeys(a, b)

SpecKey == Init /\ [][NextKey]_vars

\* C29: the cache key get_data builds is injective over (category,
\* effective subcategory, start_year, end_year, region, product_type,
\* channel, origin, destination): two calls whose tuples differ never get
\* the same key.
C29_CacheKeyInjective ==
    inp.fn = "cache_key" =>
        (KeyTuple(inp.a) # KeyTuple(inp.b) => res.a # res.b)

-----------------------------------------------------------------------------
(* SpecShared: two callers of AdaptiveScraper.scrape_category on the one  *)
(* scraper instance; th holds the callers that entered, inst the          *)
(* attribute self.raw_html they share                                     *)

\* the requests of the callers: one year each, a valid category
SharedRequests ==
    {[category |-> "producao", subcategory |-> Absent,
      start_year |-> y, end_year |-> y] : y \in ModelYears}

\* the pages and failures the callers meet
SharedOutcomes == {"fail", "rows", "notable", FullPage}

\* lines 403-405: self.raw_html = {} and the call of scrape_with_pagination
SharedEnter(t, req) ==
    /\ t \notin DOMAIN th
    /\ th' = th @@ (t :> [pc |-> "loop", req |-> req,
                          s |-> ScrapeBegin(req.start_year, req.end_year)])
    /\ inst' = [raw_html |-> << >>]
    /\ UNCHANGED <<lock, tornSeen, scr, out, cacheVars, seqVars, fnVars>>

\* one session.get of the caller's loop; after the last one the caller
\* assigns self.raw_html when it has fewer than 10 records (lines 324-326)
SharedAttempt(t, o) ==
    /\ t \in DOMAIN th
    /\ th[t].pc = "loop"
    /\ th[t].s.status = "running"
    /\ th' = [th EXCEPT ![t].s = ScrapeStep(th[t].s, o)]
    /\ inst' = [raw_html |->
                  RawHtmlAfter(ScrapeStep(th[t].s, o), inst.raw_html)]
    /\ UNCHANGED <<lock, tornSeen, scr, out, cacheVars, seqVars, fnVars>>

\* lines 407-409: the caller reads self.raw_html for its sample page and
\* returns the envelope
SharedReturn(t) ==
    /\ t \in DOMAIN th
    /\ th[t].pc = "loop"
    /\ th[t].s.status = "done"
    /\ th' = [th EXCEPT ![t] =
                 [pc |-> "returned", req |-> th[t].req, s |-> th[t].s,
                  envelope |-> ScrapedData(th[t].req, th[t].s,
                                           inst.raw_html)]]
    /\ UNCHANGED <<lock, tornSeen, scr, inst, out, cacheVars, seqVars,
                   fnVars>>

NextShared ==
    \/ \E t \in Threads, req \in SharedRequests : SharedEnter(t, req)
    \/ \E t \in Threads, o \in SharedOutcomes : SharedAttempt(t, o)
    \/ \E t \in Threads : SharedReturn(t)

SpecShared == Init /\ [][NextShared]_vars

\* the pages a caller fetched itself
OwnPages(t) == {th[t].s.raw[i] : i \in 1..Len(th[t].s.raw)}

\* C27: with two scrape_category calls running on the same instance, the
\* raw_html of each returned envelope is a page that same call fetched,
\* and an envelope with 10 or more records of its own carries no raw_html.
C27_EnvelopeCarriesOwnHtml ==
    \A t \in DOMAIN th :
        th[t].pc = "returned" =>
           /\ th[t].envelope.raw_html.page # NoPage =>
                 th[t].envelope.raw_html \in OwnPages(t)
           /\ th[t].envelope.metadata.record_count >= LowDataThreshold =>
                 th[t].envelope.raw_html.page = NoPage

====
